---- MODULE Spec2Model ----
(***************************************************************************)
(* Discovery-and-enrichment pipeline of the Product Hunt finder:           *)
(* feed admission with link normalisation and deduplication, the record    *)
(* store, the two-tier enrichment cache, the run gate, the profile-lookup  *)
(* and detail-scrape workers and the sheet reconciler.                     *)
(*                                                                         *)
(* Time is counted in milliseconds, as Date.now() does.  Strings that the  *)
(* code takes apart (links, maker names) are modelled by their structure.  *)
(***************************************************************************)
EXTENDS Integers, Sequences, FiniteSets, TLC

(***************************************************************************)
(* Bounds of the model                                                     *)
(***************************************************************************)
\* largest number of trailing slashes on a feed link
MaxSlashes == 2
\* the clock stops advancing once it has reached this many clock steps
MaxTicks == 1
\* a run of the admission and moderation pipeline is followed for this many
\* steps
MaxSteps == 7
\* the scheduler clock stops after this many minutes
MaxSchedMinutes == 7
\* the cache clock stops after this many clock steps
MaxCacheTicks == 3
\* a run of cache calls is followed for this many steps
MaxCacheSteps == 6
\* a run of approvals and resyncs is followed for this many steps
MaxSinkSteps == 5
\* a run of sheet calls that may fail is followed for this many steps
MaxOutageSteps == 3
\* a sequence of pipeline triggers is followed for this many steps
MaxRunSteps == 7
\* the pipeline clock stops after this many minutes
MaxRunTicks == 1
\* overlapping pipeline triggers are followed for this many steps
MaxRaceSteps == 5
\* a pipeline run followed by key listings is followed for this many steps
MaxKeySteps == 6
\* a sequence of writes addressed to record ids is followed for this many steps
MaxWriteSteps == 4
\* a run of scheduler calls is followed for this many steps
MaxSchedSteps == 8
\* scheduler calls over a store that holds a malformed mark
MaxMarkSteps == 5
\* handler steps in a run of the profile lookups
MaxLookupSteps == 5
\* calls in a run of the cache's own operations
MaxTierSteps == 5
\* calls of fetchWithRetry in a run, and the largest retry count given
MaxRetryCalls == 3
MaxRetries == 6
\* the longest list of search results handed to findBestLinkedInMatch
MaxResults == 3
\* steps of a run of worker writes and moderation between them
MaxFrameSteps == 6
\* the longest feed handed to one fetchCategory
MaxBatch == 3
\* steps of a run of cache calls and sweeps
MaxSweepSteps == 5
\* the longest batch handed to a worker
MaxPaceBatch == 3
\* handler steps in a sequence of pipeline runs
MaxScrapeSteps == 9
\* the hours between two pipeline runs, and how often they pass
RunGapHours == 18
MaxScrapeTicks == 2
\* the longest interval, in minutes, a caller of shouldJobRun asks for
MaxOverride == 5

(***************************************************************************)
(* Program constants                                                       *)
(***************************************************************************)
MinuteMs == 60000
HourMs == 60 * MinuteMs
DayMs == 24 * HourMs
\* the default of cleanupOldSchedules' daysToKeep
defaultDaysToKeep == 30
\* CacheService.cacheExpiry: CACHE_EXPIRY_HOURS, default '24'
CACHE_EXPIRY_HOURS == 24
cacheExpiry == CACHE_EXPIRY_HOURS * HourMs
\* PhEnrichmentService.cacheExpiry: PH_ENRICHMENT_CACHE_EXPIRY_HOURS, default '24'
PH_ENRICHMENT_CACHE_EXPIRY_HOURS == 24
phCacheExpiry == PH_ENRICHMENT_CACHE_EXPIRY_HOURS * HourMs
\* the literal 12 * 60 * 60 * 1000 of enrichProduct's cache-age test
PhCacheAgeHours == 12
phCacheAgeLimit == PhCacheAgeHours * HourMs
\* CacheService.maxInMemorySize: MAX_CACHE_SIZE, default '1000'; the model
\* runs the service configured with a small memory tier
maxInMemorySize == 2
\* ScheduleService.defaultIntervalHours: CRON_INTERVAL_HOURS, default '0.05',
\* which is 3 minutes; the model counts intervals in minutes
defaultIntervalMinutes == 3
\* cleanKey's substring(0, 50)
CleanKeyMaxLen == 50
\* cleanTitle's substring(0, 200) and the minimum title length
CleanTitleMaxLen == 200
MinTitleLen == 3

\* the clock advances in steps of this size (half a cache lifetime)
ClockStep == 12 * HourMs

NoTime == 0 - 1
\* a timestamp that is a string no date can be parsed from, and one that is null
BadTime == 0 - 2
NullTime == 0 - 3
\* the number that is not a number: what getTime() gives for an invalid date
NaN == 0 - 4
\* new Date(null).getTime() is 0, the start of the epoch: on the model's
\* clock, which starts at 0 when the process does, it lies days back
EpochStart == 0 - 20 * 24 * 60 * 60 * 1000
Null == "null"

Max(a, b) == IF a >= b THEN a ELSE b

(***************************************************************************)
(* Links.  A link that `new URL` can parse is origin + path + trailing     *)
(* slashes + query string; a link it cannot parse is an opaque string.     *)
(* The empty string is the link with kind "empty".                         *)
(***************************************************************************)
Paths == {"/posts/acme", "/posts/beta"}

ParsedLinks ==
  [kind : {"url"}, path : Paths, slashes : 0..MaxSlashes, query : BOOLEAN]

BadLink == [kind |-> "bad", path |-> "not a url", slashes |-> 0, query |-> FALSE]
EmptyLink == [kind |-> "empty", path |-> "", slashes |-> 0, query |-> FALSE]

Links == ParsedLinks \cup {BadLink, EmptyLink}

\* RSSService.normalizeLink, DatabaseService.normalizeProductHuntLink and
\* GoogleSheetsService.normalizeLink: origin + pathname.replace(/\/$/, '').
\* One trailing slash, the query string and the fragment are dropped; a link
\* that does not parse is returned as it is.
normalizeLink(url) ==
  IF url.kind = "empty" THEN EmptyLink
  ELSE IF url.kind = "url"
       THEN [url EXCEPT !.slashes = Max(0, @ - 1), !.query = FALSE]
       ELSE url

normalizeProductHuntLink(link) == normalizeLink(link)

(***************************************************************************)
(* Text.  A text is a sequence of one-character strings.                   *)
(***************************************************************************)
RECURSIVE TrimLeft(_)
TrimLeft(t) ==
  IF t # <<>> /\ Head(t) = " " THEN TrimLeft(Tail(t)) ELSE t

RECURSIVE TrimRight(_)
TrimRight(t) ==
  IF t # <<>> /\ t[Len(t)] = " " THEN TrimRight(SubSeq(t, 1, Len(t) - 1)) ELSE t

\* String.prototype.trim
Trim(t) == TrimRight(TrimLeft(t))

\* String.prototype.substring(0, n)
Substring0(t, n) == IF Len(t) <= n THEN t ELSE SubSeq(t, 1, n)

RECURSIVE DropChars(_, _)
DropChars(t, cs) ==
  IF t = <<>> THEN <<>>
  ELSE IF Head(t) \in cs THEN DropChars(Tail(t), cs)
       ELSE <<Head(t)>> \o DropChars(Tail(t), cs)

\* the marker standing for the feed's "Product Hunt: " title prefix
PHPrefix == "Product Hunt: "

\* RSSService.cleanTitle: the "Product Hunt: " prefix is dropped, the rest
\* trimmed and cut to 200 characters
cleanTitle(title) ==
  Substring0(Trim(IF title # <<>> /\ Head(title) = PHPrefix THEN Tail(title) ELSE title),
             CleanTitleMaxLen)

\* RSSService.cleanMakerName: '@' and '#' are dropped, the rest trimmed
cleanMakerNameRss(maker) == Substring0(Trim(DropChars(maker, {"@", "#"})), 100)

\* RSSService.cleanDescription: a description shorter than 10 characters
\* after cleaning (or a placeholder) collapses to the empty string
cleanDescription(d) == IF d.long THEN d.text ELSE ""

\* RSSService.extractMakerFromContent: the name matched by the `by X` family
\* of patterns in the description, or null
extractMakerFromContent(d) == d.by

(***************************************************************************)
(* Feed entries                                                            *)
(***************************************************************************)
NoMaker == <<"null">>

Jane == <<"J", "a", "n", "e">>
JaneLoud == <<"@", "j", "a", "n", "e", "!">>
Bob == <<"B", "o", "b">>

Acme == <<"A", "c", "m", "e">>
AcmePro == <<PHPrefix, "A", "c", "m", "e", " ", "P", "r", "o", " ">>
TooShort == <<" ", "a", "b", " ">>

DescTool == [text |-> "A tool for teams", long |-> TRUE, by |-> NoMaker]
DescByBob == [text |-> "by Bob", long |-> FALSE, by |-> Bob]

Categories == {"artificial-intelligence", "developer-tools"}

Url(path, slashes, query) ==
  [kind |-> "url", path |-> path, slashes |-> slashes, query |-> query]

\* a feed item; pubDate is NoTime when the item carries none
Entry(title, link, creator, description, pubDate) ==
  [title |-> title, link |-> link, creator |-> creator, description |-> description,
   pubDate |-> pubDate]

\* the items of the two category feeds: sightings of one post that differ in
\* title, maker, description, query string and trailing slashes, in both
\* feeds; a second post with the name and maker of the first; and malformed
\* items
FeedItems(category) ==
  IF category = "artificial-intelligence"
  THEN { Entry(Acme, Url("/posts/acme", 0, TRUE), Jane, DescTool, 0),
         Entry(AcmePro, Url("/posts/acme", 1, FALSE), JaneLoud, DescByBob, NoTime),
         Entry(TooShort, Url("/posts/beta", 0, FALSE), Jane, DescTool, 0),
         Entry(Acme, EmptyLink, Jane, DescTool, 0) }
  ELSE { Entry(Acme, Url("/posts/acme", MaxSlashes, TRUE), NoMaker, DescByBob, 0),
         Entry(Acme, Url("/posts/beta", 0, FALSE), Jane, DescTool, 0),
         Entry(<<>>, Url("/posts/acme", 0, FALSE), Jane, DescTool, 0) }

\* extractProductData passing over an item whose link is no URL
extractProductDataParsing(item, category, t) ==
  IF item.title = <<>> \/ item.link.kind # "url" THEN <<>>
  ELSE LET makerName == IF item.creator # NoMaker THEN item.creator
                        ELSE extractMakerFromContent(item.description)
           productData ==
             [name |-> cleanTitle(item.title),
              description |-> cleanDescription(item.description),
              category |-> category,
              publishedAt |-> IF item.pubDate # NoTime THEN item.pubDate ELSE t,
              phLink |-> normalizeLink(item.link),
              makerName |-> IF makerName # NoMaker THEN cleanMakerNameRss(makerName)
                            ELSE NoMaker]
       IN IF Len(productData.name) < MinTitleLen THEN <<>> ELSE <<productData>>

\* RSSService.extractProductData: the product data of a feed item, or
\* <<>> when the item is skipped
extractProductData(item, category, t) ==
  IF item.title = <<>> \/ item.link.kind = "empty" THEN <<>>
  ELSE LET makerName == IF item.creator # NoMaker THEN item.creator
                        ELSE extractMakerFromContent(item.description)
           productData ==
             [name |-> cleanTitle(item.title),
              description |-> cleanDescription(item.description),
              category |-> category,
              publishedAt |-> IF item.pubDate # NoTime THEN item.pubDate ELSE t,
              phLink |-> normalizeLink(item.link),
              makerName |-> IF makerName # NoMaker THEN cleanMakerNameRss(makerName)
                            ELSE NoMaker]
       IN IF Len(productData.name) < MinTitleLen THEN <<>> ELSE <<productData>>

(***************************************************************************)
(* State                                                                   *)
(***************************************************************************)
VARIABLES
  now,               \* Date.now(), in ms
  products,          \* DatabaseService: data.products, id -> record
  productList,       \* DatabaseService: data.productList
  nextId,            \* the next id uuidv4() hands out
  inMemoryCache,     \* CacheService.inMemoryCache, in insertion order
  dbCache,           \* DatabaseService: data.cache, key -> {data, timestamp}
  inMemorySchedule,  \* ScheduleService.inMemorySchedule, job -> mark
  dbSchedule,        \* DatabaseService: data.schedule, job -> mark
  sheet,             \* the sheet service and the rows of the external sheet
  pc,                \* position of the request being served
  cur,               \* locals of the request being served
  out,               \* what the last completed call returned or answered
  steps              \* number of steps taken, where a run is cut to MaxSteps

vars == <<now, products, productList, nextId, inMemoryCache, dbCache,
          inMemorySchedule, dbSchedule, sheet, pc, cur, out, steps>>

storeVars == <<products, productList, nextId>>
cacheVars == <<inMemoryCache, dbCache>>
schedVars == <<inMemorySchedule, dbSchedule>>

(***************************************************************************)
(* Record store (DatabaseService)                                          *)
(***************************************************************************)
RECURSIVE FirstMatch(_, _, _)
\* the first id of list, in list order, whose stored record has the
\* normalised link n; <<>> if there is none
FirstMatch(prods, list, n) ==
  IF list = <<>> THEN <<>>
  ELSE IF Head(list) \in DOMAIN prods
          /\ normalizeProductHuntLink(prods[Head(list)].phLink) = n
       THEN <<prods[Head(list)]>>
       ELSE FirstMatch(prods, Tail(list), n)

RECURSIVE FirstRawMatch(_, _, _)
FirstRawMatch(prods, list, phLink) ==
  IF list = <<>> THEN <<>>
  ELSE IF Head(list) \in DOMAIN prods /\ prods[Head(list)].phLink = phLink
       THEN <<prods[Head(list)]>>
       ELSE FirstRawMatch(prods, Tail(list), phLink)

\* findProductByLink comparing the links as they are stored and given
findProductByRawLink(prods, list, phLink) ==
  IF phLink.kind = "empty" THEN <<>> ELSE FirstRawMatch(prods, list, phLink)

\* findProductByLink passing over rejected records
findProductByLinkActive(prods, list, phLink) ==
  IF phLink.kind = "empty" THEN <<>>
  ELSE FirstMatch([id \in {i \in DOMAIN prods : prods[i].status # "rejected"} |-> prods[id]],
                  list, normalizeProductHuntLink(phLink))

\* DatabaseService.findProductByLink
findProductByLink(prods, list, phLink) ==
  IF phLink.kind = "empty" THEN <<>>
  ELSE FirstMatch(prods, list, normalizeProductHuntLink(phLink))

\* the record saveProduct builds for a link it has not seen
NewProduct(productData, id, t) ==
  [id |-> id,
   name |-> productData.name,
   description |-> productData.description,
   category |-> productData.category,
   publishedAt |-> productData.publishedAt,
   phLink |-> productData.phLink,
   makerName |-> IF productData.makerName = <<>> THEN NoMaker ELSE productData.makerName,
   linkedin |-> Null,
   phGithub |-> Null,
   thumbnail |-> Null,
   phEnrichedAt |-> NoTime,
   status |-> "pending",
   syncedToSheets |-> FALSE,
   sheetsSynced |-> FALSE,
   createdAt |-> t,
   updatedAt |-> t]

\* DatabaseService.addToProductList
addToProductList(list, id) ==
  IF \E i \in 1..Len(list) : list[i] = id THEN list ELSE Append(list, id)

\* saveProduct writing the sighting's maker and the time into the record it
\* found
saveProductRefreshing(prods, list, id, productData, t) ==
  LET existingProduct == findProductByLink(prods, list, productData.phLink) IN
  IF existingProduct # <<>>
  THEN LET refreshed == [existingProduct[1] EXCEPT !.makerName = productData.makerName,
                                                   !.updatedAt = t]
       IN [products |-> [prods EXCEPT ![refreshed.id] = refreshed], productList |-> list,
           ret |-> refreshed, created |-> FALSE]
  ELSE LET product == NewProduct(productData, id, t) IN
       [products |-> (id :> product) @@ prods,
        productList |-> addToProductList(list, id),
        ret |-> product, created |-> TRUE]

\* DatabaseService.saveProduct: the store after the call, the record it
\* returns, and whether it created that record
saveProduct(prods, list, id, productData, t) ==
  LET existingProduct == findProductByLink(prods, list, productData.phLink) IN
  IF existingProduct # <<>>
  THEN [products |-> prods, productList |-> list,
        ret |-> existingProduct[1], created |-> FALSE]
  ELSE LET product == NewProduct(productData, id, t) IN
       [products |-> (id :> product) @@ prods,
        productList |-> addToProductList(list, id),
        ret |-> product, created |-> TRUE]

\* DatabaseService.updateProductFields: <<>> when the record is not found
updateProductFields(prods, id, fields, t) ==
  IF id \notin DOMAIN prods THEN [products |-> prods, ret |-> <<>>]
  ELSE LET updated == [f \in DOMAIN prods[id] \cup DOMAIN fields |->
                         IF f = "updatedAt" THEN t
                         ELSE IF f \in DOMAIN fields THEN fields[f]
                         ELSE prods[id][f]]
       IN [products |-> [prods EXCEPT ![id] = updated], ret |-> <<updated>>]

\* DatabaseService.updateProductLinkedIn
updateProductLinkedIn(prods, id, linkedin, t) ==
  IF id \notin DOMAIN prods THEN prods
  ELSE [prods EXCEPT ![id].linkedin = linkedin, ![id].updatedAt = t]

\* DatabaseService.updateProductPhDetails: the details are spread over the
\* stored record; only the thumbnail keeps the stored value when the details
\* carry none
updateProductPhDetails(prods, id, phDetails, t) ==
  IF id \notin DOMAIN prods THEN prods
  ELSE [prods EXCEPT ![id] =
          [f \in DOMAIN prods[id] |->
             IF f = "updatedAt" THEN t
             ELSE IF f = "thumbnail"
                  THEN IF phDetails.thumbnail # Null THEN phDetails.thumbnail
                       ELSE prods[id].thumbnail
             ELSE IF f \in DOMAIN phDetails THEN phDetails[f]
             ELSE prods[id][f]]]

(***************************************************************************)
(* Enrichment cache (CacheService over DatabaseService)                    *)
(***************************************************************************)
\* what getItem returns for a key it does not hold, and the payload of a
\* cached negative result: JavaScript's null
NullData == [null |-> TRUE]

UrlData(url) == [url |-> url]

Lower(c) ==
  CASE c = "J" -> "j" [] c = "B" -> "b" [] c = "A" -> "a" [] c = "D" -> "d"
    [] OTHER -> c

\* the characters of the model's alphabet outside [\w\s\-\.]
Punctuation == {"!", "@", "#"}

RECURSIVE CollapseSpaces(_)
\* replace(/\s+/g, '_')
CollapseSpaces(t) ==
  IF t = <<>> THEN <<>>
  ELSE IF Head(t) = " "
       THEN <<"_">> \o CollapseSpaces(TrimLeft(t))
       ELSE <<Head(t)>> \o CollapseSpaces(Tail(t))

\* CacheService.cleanKey
cleanKey(key) ==
  Substring0(Trim(CollapseSpaces(DropChars([i \in 1..Len(key) |-> Lower(key[i])],
                                           Punctuation))),
             CleanKeyMaxLen)

LinkedInKey(makerName) == [ns |-> "linkedin_cache:", id |-> cleanKey(makerName)]
PhKey(productId) == [ns |-> "ph_enrichment_cache:", id |-> <<ToString(productId)>>]

\* CacheService.isExpired
isExpired(timestamp, t) == t - timestamp > cacheExpiry

MemHas(mem, key) == \E i \in 1..Len(mem) : mem[i].key = key
MemIndex(mem, key) == CHOOSE i \in 1..Len(mem) : mem[i].key = key
MemGet(mem, key) == mem[MemIndex(mem, key)]

\* Map.prototype.delete
MemDelete(mem, key) ==
  IF MemHas(mem, key)
  THEN LET i == MemIndex(mem, key) IN SubSeq(mem, 1, i - 1) \o SubSeq(mem, i + 1, Len(mem))
  ELSE mem

\* Map.prototype.set: a key already present keeps its place
MemSet(mem, key, data, timestamp) ==
  LET e == [key |-> key, data |-> data, timestamp |-> timestamp] IN
  IF MemHas(mem, key) THEN [mem EXCEPT ![MemIndex(mem, key)] = e] ELSE Append(mem, e)

\* an addToMemoryCache that makes room by removing the entry inserted last
addToMemoryCacheNewest(mem, key, data, timestamp) ==
  MemSet(IF Len(mem) >= maxInMemorySize THEN SubSeq(mem, 1, Len(mem) - 1) ELSE mem,
         key, data, timestamp)

\* CacheService.addToMemoryCache
addToMemoryCache(mem, key, data, timestamp) ==
  MemSet(IF Len(mem) >= maxInMemorySize THEN Tail(mem) ELSE mem, key, data, timestamp)

DbDelete(db, key) == [k \in DOMAIN db \ {key} |-> db[k]]

\* a getItem that stamps the entry it copies into the in-memory tier with the
\* time of the call
cacheGetItemRestamping(mem, db, key, t) ==
  LET memHit == MemHas(mem, key) /\ ~isExpired(MemGet(mem, key).timestamp, t)
      mem1 == IF MemHas(mem, key) /\ ~memHit THEN MemDelete(mem, key) ELSE mem
  IN IF memHit
     THEN [mem |-> mem, db |-> db, ret |-> MemGet(mem, key).data]
     ELSE IF key \in DOMAIN db /\ ~isExpired(db[key].timestamp, t)
     THEN [mem |-> addToMemoryCache(mem1, key, db[key].data, t),
           db |-> db, ret |-> db[key].data]
     ELSE IF key \in DOMAIN db
     THEN [mem |-> mem1, db |-> DbDelete(db, key), ret |-> NullData]
     ELSE [mem |-> mem1, db |-> db, ret |-> NullData]

\* a getItem that looks in the in-memory tier only
cacheGetItemMemoryOnly(mem, db, key, t) ==
  IF MemHas(mem, key) /\ ~isExpired(MemGet(mem, key).timestamp, t)
  THEN [mem |-> mem, db |-> db, ret |-> MemGet(mem, key).data]
  ELSE [mem |-> MemDelete(mem, key), db |-> db, ret |-> NullData]

\* CacheService.getItem: both tiers after the call and the payload returned
cacheGetItem(mem, db, key, t) ==
  LET memHit == MemHas(mem, key) /\ ~isExpired(MemGet(mem, key).timestamp, t)
      mem1 == IF MemHas(mem, key) /\ ~memHit THEN MemDelete(mem, key) ELSE mem
  IN IF memHit
     THEN [mem |-> mem, db |-> db, ret |-> MemGet(mem, key).data]
     ELSE IF key \in DOMAIN db /\ ~isExpired(db[key].timestamp, t)
     THEN [mem |-> addToMemoryCache(mem1, key, db[key].data, db[key].timestamp),
           db |-> db, ret |-> db[key].data]
     ELSE IF key \in DOMAIN db
     THEN [mem |-> mem1, db |-> DbDelete(db, key), ret |-> NullData]
     ELSE [mem |-> mem1, db |-> db, ret |-> NullData]

\* CacheService.setItem: expiryMs is accepted and not used
cacheSetItem(mem, db, key, data, expiryMs, t) ==
  [mem |-> addToMemoryCache(mem, key, data, t),
   db |-> (key :> [data |-> data, timestamp |-> t]) @@ db]

\* CacheService.deleteItem
cacheDeleteItem(mem, db, key) == [mem |-> MemDelete(mem, key), db |-> DbDelete(db, key)]

\* CacheService.getLinkedInCache
getLinkedInCache(mem, db, makerName, t) == cacheGetItem(mem, db, LinkedInKey(makerName), t)

\* CacheService.setLinkedInCache
setLinkedInCache(mem, db, makerName, data, t) ==
  cacheSetItem(mem, db, LinkedInKey(makerName), data, cacheExpiry, t)

(***************************************************************************)
(* Profile-lookup worker (LinkedInEnrichmentService)                       *)
(***************************************************************************)
JaneProfile == "https://linkedin.com/in/jane"

\* what the external search can answer: a profile accepted by the scoring,
\* no acceptable candidate, or a failed call
SearchOutcomes ==
  {[kind |-> "found", url |-> JaneProfile],
   [kind |-> "none", url |-> Null],
   [kind |-> "error", url |-> Null]}

DataOfUrl(url) == IF url = Null THEN NullData ELSE UrlData(url)
UrlOfData(data) == IF data = NullData THEN Null ELSE data.url

\* LinkedInEnrichmentService.findLinkedInProfile: the cache after the call,
\* the URL returned (or null) and whether the external search was called
findLinkedInProfile(mem, db, makerName, search, t) ==
  IF makerName = NoMaker \/ Trim(makerName) = <<>>
  THEN [mem |-> mem, db |-> db, ret |-> Null, called |-> FALSE]
  ELSE LET cachedResult == getLinkedInCache(mem, db, makerName, t) IN
       IF cachedResult.ret # NullData
       THEN [mem |-> cachedResult.mem, db |-> cachedResult.db,
             ret |-> UrlOfData(cachedResult.ret), called |-> FALSE]
       ELSE LET linkedinUrl == IF search.kind = "found" THEN search.url ELSE Null
                stored == setLinkedInCache(cachedResult.mem, cachedResult.db,
                                           makerName, DataOfUrl(linkedinUrl), t)
            IN [mem |-> stored.mem, db |-> stored.db, ret |-> linkedinUrl, called |-> TRUE]

(***************************************************************************)
(* Detail-scrape worker (PhEnrichmentService)                              *)
(***************************************************************************)
AcmeGithub == "https://github.com/acme"
AcmeThumb == "https://ph-files.imgix.net/acme.png"

\* what fetching and parsing the page can give: a failed fetch (after the
\* retries), or the values the selectors found (null where none matched)
PageOutcomes ==
  {[ok |-> FALSE, linkedin |-> Null, phGithub |-> Null, thumbnail |-> Null],
   [ok |-> TRUE, linkedin |-> Null, phGithub |-> AcmeGithub, thumbnail |-> AcmeThumb],
   [ok |-> TRUE, linkedin |-> JaneProfile, phGithub |-> Null, thumbnail |-> Null]}

OrElse(a, b) == IF a # Null THEN a ELSE b

\* { ...product, ...cachedData }
Merged(product, data) ==
  [f \in DOMAIN product |-> IF f \in DOMAIN data THEN data[f] ELSE product[f]]

\* the least time a page fetch takes, in milliseconds: what enrichProduct
\* writes after the fetch carries a later time than what was written before
PageFetchMs == 1

\* PhEnrichmentService.enrichProduct on a product object: the cache and the
\* store after the call, the object returned and whether the page was fetched
enrichProduct(mem, db, prods, product, page, t) ==
  LET cached == cacheGetItem(mem, db, PhKey(product.id), t)
      fresh == cached.ret # NullData
               /\ t - cached.ret.phEnrichedAt < phCacheAgeLimit
      enrichedData ==
        [linkedin |-> OrElse(page.linkedin, product.linkedin),
         phGithub |-> OrElse(page.phGithub, product.phGithub),
         thumbnail |-> OrElse(page.thumbnail, product.thumbnail),
         phEnrichedAt |-> t + PageFetchMs]
      stored == cacheSetItem(cached.mem, cached.db, PhKey(product.id),
                             enrichedData, phCacheExpiry, t + PageFetchMs)
  IN IF fresh
     THEN [mem |-> cached.mem, db |-> cached.db, products |-> prods,
           ret |-> Merged(product, cached.ret), fetched |-> FALSE]
     ELSE IF ~page.ok
     THEN [mem |-> cached.mem, db |-> cached.db, products |-> prods,
           ret |-> product, fetched |-> TRUE]
     ELSE [mem |-> stored.mem, db |-> stored.db,
           products |-> updateProductPhDetails(prods, product.id, enrichedData,
                                               t + PageFetchMs),
           ret |-> Merged(product, enrichedData), fetched |-> TRUE]

(***************************************************************************)
(* Sheet reconciler (GoogleSheetsService)                                  *)
(***************************************************************************)
\* the calls to the sheet API that can fail during one addApprovedMaker
SinkStages == {"init", "header", "scan", "append"}

Unknown == <<"U", "n", "k", "n", "o", "w", "n">>
HeaderRow == [kind |-> "header", makerName |-> <<>>, name |-> <<>>, phLink |-> EmptyLink]

\* the row addApprovedMaker appends for a product
RowOf(productData) ==
  [kind |-> "data",
   makerName |-> IF productData.makerName \in {NoMaker, <<>>} THEN Unknown
                 ELSE productData.makerName,
   name |-> productData.name,
   phLink |-> productData.phLink]

\* GoogleSheetsService.initialize
initialize(sh, faults) ==
  IF sh.initialized THEN [sheet |-> sh, ret |-> TRUE]
  ELSE IF ~sh.configured \/ "init" \in faults THEN [sheet |-> sh, ret |-> FALSE]
  ELSE [sheet |-> [sh EXCEPT !.initialized = TRUE], ret |-> TRUE]

\* GoogleSheetsService.ensureHeaderRow, called once the service is initialized
ensureHeaderRow(sh, faults) ==
  IF "header" \in faults THEN [sheet |-> sh, ret |-> FALSE]
  ELSE IF sh.rows = <<>> THEN [sheet |-> [sh EXCEPT !.rows = <<HeaderRow>>], ret |-> TRUE]
  ELSE [sheet |-> sh, ret |-> TRUE]

\* the scan of checkForDuplicate over the rows below the first one
RowMatches(row, productName, makerName, phLink) ==
  \/ row.name = productName /\ row.makerName = makerName
  \/ /\ phLink.kind # "empty"
     /\ row.phLink.kind # "empty"
     /\ normalizeLink(row.phLink) = normalizeLink(phLink)

\* checkForDuplicate comparing product name and maker name only
checkForDuplicateByName(sh, productName, makerName, phLink, faults) ==
  [sheet |-> sh,
   ret |-> \E i \in 2..Len(sh.rows) :
             sh.rows[i].name = productName /\ sh.rows[i].makerName = makerName]

\* GoogleSheetsService.checkForDuplicate; the variant with the extended row
\* ensures the header row again before it scans
checkForDuplicate(sh, productName, makerName, phLink, faults) ==
  LET header == IF sh.extended THEN ensureHeaderRow(sh, faults)
                ELSE [sheet |-> sh, ret |-> TRUE]
      rows == header.sheet.rows
  IN IF ~header.ret \/ "scan" \in faults THEN [sheet |-> header.sheet, ret |-> FALSE]
     ELSE [sheet |-> header.sheet,
           ret |-> \E i \in 2..Len(rows) :
                     RowMatches(rows[i], productName, makerName, phLink)]

\* addApprovedMaker reporting success when the service is not available
addApprovedMakerOptimistic(sh, productData, faults) ==
  LET init == initialize(sh, faults)
      header == ensureHeaderRow(init.sheet, faults)
      dup == checkForDuplicate(header.sheet, productData.name,
                               productData.makerName, productData.phLink, faults)
  IN IF ~init.ret THEN [sheet |-> init.sheet, ret |-> "true"]
     ELSE IF dup.ret THEN [sheet |-> dup.sheet, ret |-> "true"]
     ELSE IF "append" \in faults THEN [sheet |-> dup.sheet, ret |-> "throw"]
     ELSE [sheet |-> [dup.sheet EXCEPT !.rows = Append(@, RowOf(productData))],
           ret |-> "true"]

\* addApprovedMaker returning false when the append fails
addApprovedMakerSwallowing(sh, productData, faults) ==
  LET init == initialize(sh, faults)
      header == ensureHeaderRow(init.sheet, faults)
      dup == checkForDuplicate(header.sheet, productData.name,
                               productData.makerName, productData.phLink, faults)
  IN IF ~init.ret THEN [sheet |-> init.sheet, ret |-> "false"]
     ELSE IF dup.ret THEN [sheet |-> dup.sheet, ret |-> "true"]
     ELSE IF "append" \in faults THEN [sheet |-> dup.sheet, ret |-> "false"]
     ELSE [sheet |-> [dup.sheet EXCEPT !.rows = Append(@, RowOf(productData))],
           ret |-> "true"]

\* GoogleSheetsService.addApprovedMaker: the sheet after the call and how the
\* call ended: "true", "false", or "throw" when it raised
addApprovedMaker(sh, productData, faults) ==
  LET init == initialize(sh, faults)
      header == ensureHeaderRow(init.sheet, faults)
      dup == checkForDuplicate(header.sheet, productData.name,
                               productData.makerName, productData.phLink, faults)
  IN IF ~init.ret THEN [sheet |-> init.sheet, ret |-> "false"]
     ELSE IF dup.ret THEN [sheet |-> dup.sheet, ret |-> "true"]
     ELSE IF "append" \in faults THEN [sheet |-> dup.sheet, ret |-> "throw"]
     ELSE [sheet |-> [dup.sheet EXCEPT !.rows = Append(@, RowOf(productData))],
           ret |-> "true"]

(***************************************************************************)
(* Initial state: an empty store, empty caches, no run marks, and a sheet  *)
(* service that has not been configured.                                   *)
(***************************************************************************)
NoCur == [op |-> "none"]
NoOut == [op |-> "none"]

NoSheet == [configured |-> FALSE, extended |-> FALSE, initialized |-> FALSE, rows |-> <<>>]

Init ==
  /\ now = 0
  /\ products = <<>>
  /\ productList = <<>>
  /\ nextId = 1
  /\ inMemoryCache = <<>>
  /\ dbCache = <<>>
  /\ inMemorySchedule = <<>>
  /\ dbSchedule = <<>>
  /\ sheet = NoSheet
  /\ pc = "idle"
  /\ cur = NoCur
  /\ out = NoOut
  /\ steps = 0

(***************************************************************************)
(* Admission: one iteration of RSSService.fetchCategory's loop over the    *)
(* feed items, in two steps: extractProductData and saveProduct, then      *)
(* enrichProduct on the record saveProduct returned.                       *)
(***************************************************************************)
SaveStep(category, item) ==
  /\ pc = "idle"
  /\ LET extracted == extractProductData(item, category, now) IN
     IF extracted = <<>>
     THEN /\ out' = [op |-> "fetchItem", skipped |-> TRUE]
          /\ UNCHANGED <<storeVars, pc, cur>>
     ELSE LET saved == saveProduct(products, productList, nextId, extracted[1], now) IN
          /\ products' = saved.products
          /\ productList' = saved.productList
          /\ nextId' = IF saved.created THEN nextId + 1 ELSE nextId
          /\ pc' = "enrich"
          /\ cur' = [op |-> "fetchItem", productData |-> extracted[1],
                     savedProduct |-> saved.ret]
          /\ UNCHANGED out
  /\ UNCHANGED <<now, cacheVars, schedVars, sheet>>

EnrichStep(page) ==
  /\ pc = "enrich"
  /\ LET savedProduct == cur.savedProduct
         enriched == enrichProduct(inMemoryCache, dbCache, products, savedProduct, page, now)
     IN /\ inMemoryCache' = enriched.mem
        /\ dbCache' = enriched.db
        /\ products' = enriched.products
        /\ out' = [op |-> "fetchItem", skipped |-> FALSE,
                   isNew |-> savedProduct.createdAt = savedProduct.updatedAt]
  /\ pc' = "idle"
  /\ cur' = NoCur
  /\ UNCHANGED <<now, productList, nextId, schedVars, sheet>>

(***************************************************************************)
(* Moderation: POST /api/makers/:id/approve and /reject                    *)
(***************************************************************************)
SheetsUnavailable == "Google Sheets service not available"
SheetsFailed == "request to the sheet failed"

Approve(id, faults) ==
  /\ pc = "idle"
  /\ IF id \notin DOMAIN products
     THEN /\ out' = [op |-> "approve", id |-> id, code |-> 404, success |-> FALSE]
          /\ UNCHANGED <<products, sheet>>
     ELSE LET product == products[id]
              approved == updateProductFields(products, id, [status |-> "approved"], now)
              sync == addApprovedMaker(sheet, product, faults)
              marked == updateProductFields(approved.products, id,
                                            [sheetsSynced |-> TRUE], now)
          IN /\ sheet' = sync.sheet
             /\ products' = IF sync.ret = "true" THEN marked.products
                            ELSE approved.products
             /\ out' = [op |-> "approve", id |-> id, code |-> 200, success |-> TRUE,
                        synced |-> sync.ret = "true",
                        error |-> CASE sync.ret = "true" -> Null
                                    [] sync.ret = "false" -> SheetsUnavailable
                                    [] OTHER -> SheetsFailed,
                        ret |-> sync.ret]
  /\ UNCHANGED <<now, productList, nextId, cacheVars, schedVars, pc, cur>>

Reject(id) ==
  /\ pc = "idle"
  /\ LET rejected == updateProductFields(products, id, [status |-> "rejected"], now) IN
     /\ products' = rejected.products
     /\ out' = IF rejected.ret # <<>>
               THEN [op |-> "reject", id |-> id, code |-> 200, success |-> TRUE]
               ELSE [op |-> "reject", id |-> id, code |-> 404, success |-> FALSE]
  /\ UNCHANGED <<now, productList, nextId, cacheVars, schedVars, sheet, pc, cur>>

(***************************************************************************)
(* Profile enrichment: one iteration of enrichProducts' loop over the      *)
(* products getProductsNeedingEnrichment returned                          *)
(***************************************************************************)
NeedsEnrichment(product) ==
  /\ product.status = "pending"
  /\ product.linkedin = Null
  /\ product.makerName # NoMaker

LinkedInStep(id, search) ==
  /\ pc = "idle"
  /\ id \in DOMAIN products
  /\ NeedsEnrichment(products[id])
  /\ LET found == findLinkedInProfile(inMemoryCache, dbCache, products[id].makerName,
                                      search, now)
         hit == getLinkedInCache(found.mem, found.db, products[id].makerName, now)
     IN /\ inMemoryCache' = hit.mem
        /\ dbCache' = hit.db
        /\ products' = updateProductLinkedIn(products, id, found.ret, now)
        /\ out' = [op |-> "linkedin", ret |-> found.ret, called |-> found.called]
  /\ UNCHANGED <<now, productList, nextId, schedVars, sheet, pc, cur>>

\* time passes between requests
Tick ==
  /\ pc = "idle"
  /\ now < MaxTicks * ClockStep
  /\ now' = now + ClockStep
  /\ UNCHANGED <<storeVars, cacheVars, schedVars, sheet, pc, cur, out>>

\* a step that counts towards the cut of the run
Counted(max) == steps < max /\ steps' = steps + 1

Next ==
  \/ Counted(MaxSteps) /\ \E category \in Categories : \E item \in FeedItems(category) :
                             SaveStep(category, item)
  \/ Counted(MaxSteps) /\ \E page \in PageOutcomes : EnrichStep(page)
  \/ Counted(MaxSteps) /\ \E id \in 1..nextId : Approve(id, {})
  \/ Counted(MaxSteps) /\ \E id \in 1..nextId : Reject(id)
  \/ Counted(MaxSteps) /\ \E id \in DOMAIN products, search \in SearchOutcomes :
                             LinkedInStep(id, search)
  \/ Counted(MaxSteps) /\ Tick

Spec == Init /\ [][Next]_vars

(***************************************************************************)
(* Admission and deduplication                                             *)
(***************************************************************************)
\* two links are the same normalized link
SameLink(a, b) == normalizeLink(a) = normalizeLink(b)

RecordsWithLink(prods, link) == {id \in DOMAIN prods : SameLink(prods[id].phLink, link)}

\* the step in which saveProduct has just returned
Saved == pc = "idle" /\ pc' = "enrich"

\* C1: admitting an entry whose link normalizes to the link of a record
\* already admitted leaves exactly one record with that link, and saveProduct
\* returns that first record as it was stored, with the store unchanged,
\* whatever the entry's title, maker, description, query string or slash.
C1_IdempotentAdmission ==
  [][Saved =>
       LET link == cur'.productData.phLink IN
       /\ Cardinality(RecordsWithLink(products', link)) = 1
       /\ SameLink(cur'.savedProduct.phLink, link)
       /\ \A id \in RecordsWithLink(products, link) :
            /\ cur'.savedProduct = products[id]
            /\ products' = products
            /\ productList' = productList]_vars

\* a second sighting, with another title and another maker, of a link whose
\* record has been changed since admission, has just been saved
C1_Witness ==
  /\ pc = "enrich"
  /\ cur.productData.name # cur.savedProduct.name
  /\ cur.productData.makerName # cur.savedProduct.makerName
  /\ cur.productData.phLink = cur.savedProduct.phLink
  /\ cur.savedProduct.updatedAt < now
  /\ cur.savedProduct.phEnrichedAt # NoTime

\* C2: when a rejected record with the same normalized link exists,
\* saveProduct creates no record, adds no id to the record-id list and leaves
\* the record rejected with every field unchanged.
C2_RejectionSticks ==
  [][Saved =>
       \A id \in RecordsWithLink(products, cur'.productData.phLink) :
         products[id].status = "rejected" =>
           /\ DOMAIN products' = DOMAIN products
           /\ productList' = productList
           /\ nextId' = nextId
           /\ products'[id] = products[id]
           /\ cur'.savedProduct = products[id]]_vars

\* a later sighting of a rejected record's link has just been saved
C2_Witness ==
  /\ pc = "enrich"
  /\ cur.savedProduct.status = "rejected"
  /\ cur.savedProduct.updatedAt < now
  /\ products[cur.savedProduct.id].status = "rejected"

\* C3: in every reachable state no two records whose status is not rejected
\* have the same normalized link.
C3_UniqueLink ==
  \A a \in DOMAIN products : \A b \in DOMAIN products :
    (a # b /\ products[a].status # "rejected" /\ products[b].status # "rejected")
      => ~SameLink(products[a].phLink, products[b].phLink)

\* two records live side by side, one of them approved and enriched, and a
\* feed item has just been admitted and enriched
C3_Witness ==
  /\ Cardinality({id \in DOMAIN products : products[id].status # "rejected"}) = 2
  /\ \E id \in DOMAIN products :
       products[id].status = "approved" /\ products[id].phEnrichedAt # NoTime
  /\ out.op = "fetchItem" /\ ~out.skipped

(***************************************************************************)
(* The enrichment cache on its own: the calls its two users make           *)
(* (setItem and getItem by the detail scrape, findLinkedInProfile over     *)
(* getLinkedInCache and setLinkedInCache), a process restart, and time.    *)
(***************************************************************************)
JaneBang == <<"j", "a", "n", "e", "!">>
Blank == <<" ">>
BobProfile == "https://linkedin.com/in/bob"

\* the maker names looked up; Jane and JaneBang clean to the same cache key
LookupNames == {Jane, JaneBang, Bob, Blank}

CacheKeys == {LinkedInKey(Jane), LinkedInKey(Bob), PhKey(1)}
Payloads == {UrlData(JaneProfile), UrlData(BobProfile)}
\* the expiry times callers hand to setItem: the cache's own, and that of a
\* caller configured for half of it
Ttls == {cacheExpiry \div 2, cacheExpiry}

InitCache ==
  /\ now = 0
  /\ products = <<>>
  /\ productList = <<>>
  /\ nextId = 1
  /\ inMemoryCache = <<>>
  /\ dbCache = <<>>
  /\ inMemorySchedule = <<>>
  /\ dbSchedule = <<>>
  /\ sheet = NoSheet
  /\ pc = "idle"
  /\ cur = NoCur
  /\ out = NoOut
  /\ steps = 0

\* cacheService.setItem(key, data, expiryMs)
SetItem(key, data, expiryMs) ==
  /\ LET stored == cacheSetItem(inMemoryCache, dbCache, key, data, expiryMs, now) IN
     /\ inMemoryCache' = stored.mem
     /\ dbCache' = stored.db
  /\ out' = [op |-> "setItem", key |-> key, data |-> data, expiryMs |-> expiryMs,
             at |-> now]
  /\ UNCHANGED <<now, storeVars, schedVars, sheet, pc, cur>>

\* cacheService.getItem(key)
GetItem(key) ==
  /\ LET got == cacheGetItem(inMemoryCache, dbCache, key, now) IN
     /\ inMemoryCache' = got.mem
     /\ dbCache' = got.db
     /\ out' = [op |-> "getItem", key |-> key, ret |-> got.ret]
  /\ UNCHANGED <<now, storeVars, schedVars, sheet, pc, cur>>

\* linkedInEnrichmentService.findLinkedInProfile(makerName)
Lookup(makerName, search) ==
  /\ LET found == findLinkedInProfile(inMemoryCache, dbCache, makerName, search, now) IN
     /\ inMemoryCache' = found.mem
     /\ dbCache' = found.db
     /\ out' = [op |-> "lookup", key |-> LinkedInKey(makerName), ret |-> found.ret,
                called |-> found.called, at |-> now]
  /\ UNCHANGED <<now, storeVars, schedVars, sheet, pc, cur>>

\* the process restarts: the memory tier starts empty
Restart ==
  /\ inMemoryCache # <<>>
  /\ inMemoryCache' = <<>>
  /\ UNCHANGED <<now, dbCache, storeVars, schedVars, sheet, pc, cur, out>>

TickCache ==
  /\ now < MaxCacheTicks * ClockStep
  /\ now' = now + ClockStep
  /\ UNCHANGED <<storeVars, cacheVars, schedVars, sheet, pc, cur, out>>

NextCache ==
  \/ Counted(MaxCacheSteps) /\ \E key \in CacheKeys, data \in Payloads, expiryMs \in Ttls :
                                 SetItem(key, data, expiryMs)
  \/ Counted(MaxCacheSteps) /\ \E key \in CacheKeys : GetItem(key)
  \/ Counted(MaxCacheSteps) /\ \E makerName \in LookupNames, search \in SearchOutcomes :
                                 Lookup(makerName, search)
  \/ Counted(MaxCacheSteps) /\ Restart
  \/ Counted(MaxCacheSteps) /\ TickCache

SpecCache == InitCache /\ [][NextCache]_vars

\* C4: after a findLinkedInProfile that called the search and ended negative,
\* a further findLinkedInProfile for a name with the same cleaned cache key,
\* made before the cache lifetime has elapsed, returns not-found without
\* calling the external search.
C4_NegativeLookupCached ==
  [][\A makerName \in LookupNames, search \in SearchOutcomes :
       (/\ Lookup(makerName, search)
        /\ out.op = "lookup" /\ out.called /\ out.ret = Null
        /\ out.key = LinkedInKey(makerName)
        /\ now - out.at < cacheExpiry)
       => (out'.ret = Null /\ ~out'.called)]_vars

\* C5: getItem(k) after setItem(k, v, ttl) returns v at every time before
\* ttl has elapsed since the set and absent at every time after it has,
\* ttl being the value given in that setItem call.
C5_CacheTtl ==
  [][\A key \in CacheKeys :
       (GetItem(key) /\ out.op = "setItem" /\ out.key = key)
       => /\ (now - out.at < out.expiryMs => out'.ret = out.data)
          /\ (now - out.at > out.expiryMs => out'.ret = NullData)]_vars

(***************************************************************************)
(* Run gate (ScheduleService)                                              *)
(***************************************************************************)
\* the job of POST /cron/fetch and one more name, as the schedule routes take any
Jobs == {"rss-fetch", "other-job"}

\* the intervalHours argument of shouldJobRun: null, or a number of minutes
NoOverride == [given |-> FALSE, minutes |-> 0]
Override(minutes) == [given |-> TRUE, minutes |-> minutes]
Overrides == {NoOverride, Override(0), Override(MaxOverride)}

NoMark == [timestamp |-> NoTime]

\* the default of recordJobRun's results argument
NoResults == <<>>

\* ScheduleService.getLastRun: the memory map after the call and the mark
\* returned (NoMark for null).  A store that cannot be read answers with its
\* empty default, so the mark reads as absent.
getLastRun(mem, db, jobName, readOk) ==
  IF jobName \in DOMAIN mem THEN [mem |-> mem, ret |-> mem[jobName]]
  ELSE IF readOk /\ jobName \in DOMAIN db
  THEN [mem |-> (jobName :> db[jobName]) @@ mem, ret |-> db[jobName]]
  ELSE [mem |-> mem, ret |-> NoMark]

\* shouldJobRun admitting a run only after more than the interval
shouldJobRunStrict(mem, db, jobName, intervalHours, readOk, t) ==
  LET interval == IF intervalHours.given /\ intervalHours.minutes # 0
                  THEN intervalHours.minutes ELSE defaultIntervalMinutes
      lastRun == getLastRun(mem, db, jobName, readOk)
  IN [mem |-> lastRun.mem, lastRun |-> lastRun.ret,
      shouldRun |-> lastRun.ret = NoMark
                    \/ t - lastRun.ret.timestamp > interval * MinuteMs]

\* shouldJobRun taking the default interval whatever the caller asks for
shouldJobRunDefaultOnly(mem, db, jobName, intervalHours, readOk, t) ==
  LET lastRun == getLastRun(mem, db, jobName, readOk)
  IN [mem |-> lastRun.mem, lastRun |-> lastRun.ret,
      shouldRun |-> lastRun.ret = NoMark
                    \/ t - lastRun.ret.timestamp >= defaultIntervalMinutes * MinuteMs]

\* shouldJobRun stamping the mark with the time of a refused call
shouldJobRunStamping(mem, db, jobName, intervalHours, readOk, t) ==
  LET lastRun == getLastRun(mem, db, jobName, readOk)
      refused == lastRun.ret # NoMark
                 /\ t - lastRun.ret.timestamp < defaultIntervalMinutes * MinuteMs
  IN [mem |-> IF refused
              THEN (jobName :> [lastRun.ret EXCEPT !.timestamp = t]) @@ lastRun.mem
              ELSE lastRun.mem,
      lastRun |-> lastRun.ret,
      shouldRun |-> ~refused]

\* shouldJobRun refusing the run when the store cannot be read
shouldJobRunFailingClosed(mem, db, jobName, intervalHours, readOk, t) ==
  LET lastRun == getLastRun(mem, db, jobName, readOk)
      interval == IF intervalHours.given /\ intervalHours.minutes # 0
                  THEN intervalHours.minutes ELSE defaultIntervalMinutes
  IN [mem |-> lastRun.mem, lastRun |-> lastRun.ret,
      shouldRun |-> IF lastRun.ret = NoMark THEN readOk \/ jobName \in DOMAIN mem
                    ELSE t - lastRun.ret.timestamp >= interval * MinuteMs]

\* new Date(timestamp).getTime(): no date comes of an absent timestamp or of
\* a string that is not a date, and null is the start of the epoch
getTime(timestamp) ==
  IF timestamp \in {NoTime, BadTime} THEN NaN
  ELSE IF timestamp = NullTime THEN EpochStart
  ELSE timestamp

\* a >= b of two numbers, false when one of them is NaN
AtLeast(a, b) == a # NaN /\ b # NaN /\ a >= b

\* shouldJobRun working out nextRunTime only where it refuses the run, after
\* the comparison
shouldJobRunComparing(mem, db, jobName, intervalHours, readOk, t) ==
  LET interval == IF intervalHours.given /\ intervalHours.minutes # 0
                  THEN intervalHours.minutes ELSE defaultIntervalMinutes
      lastRun == getLastRun(mem, db, jobName, readOk)
      lastRunTime == getTime(lastRun.ret.timestamp)
      timeSinceLastRun == IF lastRunTime = NaN THEN NaN ELSE t - lastRunTime
  IN [mem |-> lastRun.mem, lastRun |-> lastRun.ret,
      shouldRun |-> lastRun.ret = NoMark
                    \/ AtLeast(timeSinceLastRun, interval * MinuteMs)]

\* ScheduleService.shouldJobRun: the memory map after the call, the mark it
\* returns and its verdict.  nextRunTime is worked out before the comparison:
\* new Date(NaN).toISOString() raises a RangeError, and the catch answers
\* that the job should run, with lastRun null.
shouldJobRun(mem, db, jobName, intervalHours, readOk, t) ==
  LET interval == IF intervalHours.given /\ intervalHours.minutes # 0
                  THEN intervalHours.minutes ELSE defaultIntervalMinutes
      intervalMs == interval * MinuteMs
      lastRun == getLastRun(mem, db, jobName, readOk)
      lastRunTime == getTime(lastRun.ret.timestamp)
      timeSinceLastRun == IF lastRunTime = NaN THEN NaN ELSE t - lastRunTime
      raised == lastRun.ret # NoMark /\ lastRunTime = NaN
  IN [mem |-> lastRun.mem,
      lastRun |-> IF raised THEN NoMark ELSE lastRun.ret,
      shouldRun |-> \/ lastRun.ret = NoMark
                    \/ raised
                    \/ AtLeast(timeSinceLastRun, intervalMs)]

\* recordJobRun leaving the mark alone when the run's feed stage met errors
recordJobRunCleanOnly(mem, db, jobName, results, readOk, writeOk, t) ==
  IF results # <<>> /\ results.rss.errors # <<>>
  THEN [mem |-> mem, db |-> db]
  ELSE [mem |-> (jobName :> [timestamp |-> t, results |-> results]) @@ mem,
        db |-> IF writeOk
               THEN (jobName :> [timestamp |-> t, results |-> results])
                    @@ (IF readOk THEN db ELSE <<>>)
               ELSE db]

\* ScheduleService.recordJobRun: setItem reads the store (an unreadable store
\* reads as its empty default), sets the mark and writes the store back; a
\* failed write is swallowed, and the memory map is set in either case
recordJobRun(mem, db, jobName, results, readOk, writeOk, t) ==
  LET runData == [timestamp |-> t, results |-> results]
      data == IF readOk THEN db ELSE <<>>
  IN [mem |-> (jobName :> runData) @@ mem,
      db |-> IF writeOk THEN (jobName :> runData) @@ data ELSE db]

\* ScheduleService.forceJobRunnable: deleteItem reads the store (an unreadable
\* store reads as its empty default), drops the mark and writes the store back,
\* a failed write being swallowed; the memory map drops the mark in either case
forceJobRunnable(mem, db, jobName, readOk, writeOk) ==
  LET data == IF readOk THEN db ELSE <<>>
  IN [mem |-> [j \in DOMAIN mem \ {jobName} |-> mem[j]],
      db |-> IF writeOk THEN [j \in DOMAIN data \ {jobName} |-> data[j]] ELSE db,
      ret |-> TRUE]

\* the key namespaces of the store
ProductNs == "product:"
LinkedInNs == "linkedin_cache:"
PhNs == "ph_enrichment_cache:"
ScheduleNs == "schedule:"
Namespaces == {ProductNs, LinkedInNs, PhNs, ScheduleNs}

\* the key of a record and the key of a mark
ProductKey(id) == [ns |-> ProductNs, id |-> id]
ScheduleKey(jobName) == [ns |-> ScheduleNs, id |-> jobName]

\* what readLocalData hands to getKeysByPattern: the list of record ids, the
\* cache entries and the marks, all empty when the store cannot be read
LocalData(list, cache, schedule, readOk) ==
  IF readOk THEN [productList |-> list, cache |-> cache, schedule |-> schedule]
  ELSE [productList |-> <<>>, cache |-> <<>>, schedule |-> <<>>]

\* DatabaseService.matchPattern(key, '<ns>*')
matchPattern(key, ns) == key.ns = ns

\* DatabaseService.getKeysByPattern('<ns>*'): the second branch tests
\* pattern.startsWith('linkedin_cache:') || key.startsWith(...), and `key` is
\* not defined there; for every pattern that does not start with 'product:' or
\* 'linkedin_cache:' the test raises a ReferenceError, which the catch turns
\* into the empty list
getKeysByPattern(ns, data) ==
  IF ns = ProductNs
  THEN {ProductKey(data.productList[i]) : i \in DOMAIN data.productList}
  ELSE IF ns = LinkedInNs
  THEN {key \in DOMAIN data.cache : matchPattern(key, ns)}
  ELSE {}

\* the daysToKeep arguments of cleanupOldSchedules: none kept, and the default
DaysToKeep == {0, defaultDaysToKeep}

\* scheduleTime < cutoffTime, where cutoffTime is Date.now() less daysToKeep
\* days: the age of the mark exceeds daysToKeep days (whole days and the
\* rest are compared, which keeps the numbers small)
BeforeCutoff(scheduleTime, daysToKeep, t) ==
  \/ (t - scheduleTime) \div DayMs > daysToKeep
  \/ (t - scheduleTime) \div DayMs = daysToKeep /\ (t - scheduleTime) % DayMs > 0

\* ScheduleService.cleanupOldSchedules: the marks whose keys getKeysByPattern
\* lists are read; one older than the cutoff is deleted from the store and the
\* memory map, one without a timestamp from the store; a failed store write
\* is swallowed
cleanupOldSchedules(mem, db, daysToKeep, readOk, writeOk, t) ==
  LET allKeys == getKeysByPattern(ScheduleNs, LocalData(<<>>, <<>>, db, readOk))
      old == {key.id : key \in {k \in allKeys :
                                  /\ db[k.id].timestamp # NoTime
                                  /\ BeforeCutoff(db[k.id].timestamp, daysToKeep, t)}}
      invalid == {key.id : key \in {k \in allKeys : db[k.id].timestamp = NoTime}}
  IN [mem |-> [j \in DOMAIN mem \ old |-> mem[j]],
      db |-> IF writeOk THEN [j \in DOMAIN db \ (old \cup invalid) |-> db[j]] ELSE db,
      checked |-> Cardinality(allKeys),
      removed |-> Cardinality(old \cup invalid),
      kept |-> Cardinality(allKeys) - Cardinality(old \cup invalid)]

InitSched == InitCache

ShouldJobRun(jobName, intervalHours, readOk) ==
  /\ LET check == shouldJobRun(inMemorySchedule, dbSchedule, jobName, intervalHours,
                               readOk, now)
     IN /\ inMemorySchedule' = check.mem
        /\ out' = [op |-> "shouldJobRun", jobName |-> jobName,
                   intervalHours |-> intervalHours, readOk |-> readOk,
                   shouldRun |-> check.shouldRun, lastRun |-> check.lastRun,
                   after |-> IF out.op = "recordJobRun" THEN out ELSE NoOut]
  /\ UNCHANGED <<now, dbSchedule, storeVars, cacheVars, sheet, pc, cur>>

RecordJobRun(jobName, readOk, writeOk) ==
  /\ LET recorded == recordJobRun(inMemorySchedule, dbSchedule, jobName, NoResults, readOk,
                                  writeOk, now) IN
     /\ inMemorySchedule' = recorded.mem
     /\ dbSchedule' = recorded.db
  /\ out' = [op |-> "recordJobRun", jobName |-> jobName, at |-> now]
  /\ UNCHANGED <<now, storeVars, cacheVars, sheet, pc, cur>>

ForceJobRunnable(jobName, readOk, writeOk) ==
  /\ LET forced == forceJobRunnable(inMemorySchedule, dbSchedule, jobName, readOk, writeOk) IN
     /\ inMemorySchedule' = forced.mem
     /\ dbSchedule' = forced.db
     /\ out' = [op |-> "forceJobRunnable", jobName |-> jobName, ret |-> forced.ret]
  /\ UNCHANGED <<now, storeVars, cacheVars, sheet, pc, cur>>

\* POST /cron/cache/cleanup: scheduleService.cleanupOldSchedules
CleanupOldSchedules(daysToKeep, readOk, writeOk) ==
  /\ LET cleaned == cleanupOldSchedules(inMemorySchedule, dbSchedule, daysToKeep,
                                        readOk, writeOk, now) IN
     /\ inMemorySchedule' = cleaned.mem
     /\ dbSchedule' = cleaned.db
     /\ out' = [op |-> "cleanupOldSchedules", daysToKeep |-> daysToKeep,
                checked |-> cleaned.checked, removed |-> cleaned.removed,
                kept |-> cleaned.kept]
  /\ UNCHANGED <<now, storeVars, cacheVars, sheet, pc, cur>>

\* the process restarts: the memory map starts empty
RestartSched ==
  /\ inMemorySchedule # <<>>
  /\ inMemorySchedule' = <<>>
  /\ out' = [op |-> "restart"]
  /\ UNCHANGED <<now, dbSchedule, storeVars, cacheVars, sheet, pc, cur>>

TickSched ==
  /\ now < MaxSchedMinutes * MinuteMs
  /\ now' = now + MinuteMs
  /\ UNCHANGED <<storeVars, cacheVars, schedVars, sheet, pc, cur, out>>

NextSched ==
  \/ Counted(MaxSchedSteps) /\ \E jobName \in Jobs, intervalHours \in Overrides,
                                  readOk \in BOOLEAN :
                                 ShouldJobRun(jobName, intervalHours, readOk)
  \/ Counted(MaxSchedSteps) /\ \E jobName \in Jobs, readOk, writeOk \in BOOLEAN :
                                 RecordJobRun(jobName, readOk, writeOk)
  \/ Counted(MaxSchedSteps) /\ \E jobName \in Jobs, readOk, writeOk \in BOOLEAN :
                                 ForceJobRunnable(jobName, readOk, writeOk)
  \/ Counted(MaxSchedSteps) /\ \E daysToKeep \in DaysToKeep, readOk, writeOk \in BOOLEAN :
                                 CleanupOldSchedules(daysToKeep, readOk, writeOk)
  \/ Counted(MaxSchedSteps) /\ RestartSched
  \/ Counted(MaxSchedSteps) /\ TickSched

SpecSched == InitSched /\ [][NextSched]_vars

\* the interval a call is made under: the override when one is given,
\* otherwise the default
InForce(intervalHours) ==
  IF intervalHours.given THEN intervalHours.minutes ELSE defaultIntervalMinutes

MarkExists(jobName) ==
  jobName \in DOMAIN inMemorySchedule \/ jobName \in DOMAIN dbSchedule

\* the mark of a job: the memory map's when it holds one, else the store's
MarkOf(jobName) ==
  IF jobName \in DOMAIN inMemorySchedule THEN inMemorySchedule[jobName]
  ELSE dbSchedule[jobName]

\* C6: shouldJobRun(job) answers true when the job has no mark, false when
\* asked at the instant recordJobRun(job) was the previous scheduler call, and
\* true when recordJobRun(job) was the previous scheduler call and at least
\* the configured interval has passed since.
C6_GateFollowsMark ==
  [][\A jobName \in Jobs, intervalHours \in Overrides, readOk \in BOOLEAN :
       (out'.op = "shouldJobRun" /\ ShouldJobRun(jobName, intervalHours, readOk))
       => /\ ~MarkExists(jobName) => out'.shouldRun
          /\ (out.op = "recordJobRun" /\ out.jobName = jobName)
             => /\ now = out.at => ~out'.shouldRun
                /\ (/\ intervalHours = NoOverride
                    /\ now - out.at >= defaultIntervalMinutes * MinuteMs)
                   => out'.shouldRun]_vars

\* a run admitted right after recordJobRun once exactly the configured
\* interval has passed
C6_Witness ==
  /\ out.op = "shouldJobRun" /\ out.shouldRun
  /\ out.intervalHours = NoOverride
  /\ out.after.op = "recordJobRun" /\ out.after.jobName = out.jobName
  /\ now - out.after.at = defaultIntervalMinutes * MinuteMs

FaultSets == SUBSET SinkStages

RECURSIVE getAllProductsFrom(_, _, _)
\* the records of list[i..], sorted by publishedAt, newest first, ties in
\* list order
getAllProductsFrom(prods, list, i) ==
  IF i > Len(list) THEN <<>>
  ELSE LET rest == getAllProductsFrom(prods, list, i + 1) IN
       IF list[i] \in DOMAIN prods
       THEN LET older == SelectSeq(rest, LAMBDA q : q.publishedAt <= prods[list[i]].publishedAt)
                newer == SelectSeq(rest, LAMBDA q : q.publishedAt > prods[list[i]].publishedAt)
            IN newer \o <<prods[list[i]]>> \o older
       ELSE rest

\* DatabaseService.getAllProducts
getAllProducts(prods, list) == getAllProductsFrom(prods, list, 1)

\* DatabaseService.getApprovedProductsNeedingSync: the filter reads
\* syncedToSheets, which no handler sets
getApprovedProductsNeedingSync(prods, list) ==
  SelectSeq(getAllProducts(prods, list),
            LAMBDA product : product.status = "approved" /\ ~product.syncedToSheets)

RECURSIVE resyncLoop(_, _, _, _, _)
\* the loop of the resync handler over the products it read at the start
resyncLoop(prods, sh, todo, faultsOf, t) ==
  IF todo = <<>> THEN [products |-> prods, sheet |-> sh, results |-> <<>>]
  ELSE LET product == Head(todo)
           sync == addApprovedMaker(sh, product, faultsOf[product.id])
           marked == updateProductFields(prods, product.id, [sheetsSynced |-> TRUE], t)
           rest == resyncLoop(IF sync.ret = "true" THEN marked.products ELSE prods,
                              sync.sheet, Tail(todo), faultsOf, t)
       IN [products |-> rest.products, sheet |-> rest.sheet,
           results |-> <<[productId |-> product.id, ret |-> sync.ret,
                          success |-> sync.ret = "true"]>> \o rest.results]

Resync(faultsOf) ==
  /\ pc = "idle"
  /\ LET needingSyncProducts == getApprovedProductsNeedingSync(products, productList)
         done == resyncLoop(products, sheet, needingSyncProducts, faultsOf, now)
     IN /\ products' = done.products
        /\ sheet' = done.sheet
        /\ out' = [op |-> "resync", code |-> 200, success |-> TRUE,
                   processed |-> Len(needingSyncProducts), results |-> done.results]
  /\ UNCHANGED <<now, productList, nextId, cacheVars, schedVars, pc, cur>>

\* one call of GoogleSheetsService.addApprovedMaker
AddApprovedMaker(productData, faults) ==
  /\ pc = "idle"
  /\ LET sync == addApprovedMaker(sheet, productData, faults) IN
     /\ sheet' = sync.sheet
     /\ out' = [op |-> "addApprovedMaker", productData |-> productData,
                ret |-> sync.ret]
  /\ UNCHANGED <<now, storeVars, cacheVars, schedVars, pc, cur>>

\* the records of every sighting the feeds carry
SinkRecords ==
  UNION { { NewProduct(extractProductData(item, category, 0)[1], 0, 0) :
              item \in { i \in FeedItems(category) :
                           extractProductData(i, category, 0) # <<>> } } :
          category \in Categories }

\* the store after a fetch that saw the first post in one feed and the second
\* post, of the same name and maker, in the other
SeedItems ==
  << <<"artificial-intelligence", Entry(Acme, Url("/posts/acme", 0, TRUE), Jane, DescTool, 0)>>,
     <<"developer-tools", Entry(Acme, Url("/posts/beta", 0, FALSE), Jane, DescTool, 0)>> >>

RECURSIVE Fetched(_)
Fetched(n) ==
  IF n = 0 THEN [products |-> <<>>, productList |-> <<>>]
  ELSE LET store == Fetched(n - 1)
           productData == extractProductData(SeedItems[n][2], SeedItems[n][1], 0)[1]
           saved == saveProduct(store.products, store.productList, n, productData, 0)
       IN [products |-> saved.products, productList |-> saved.productList]

InitStore ==
  /\ now = 0
  /\ products = Fetched(Len(SeedItems)).products
  /\ productList = Fetched(Len(SeedItems)).productList
  /\ nextId = Len(SeedItems) + 1
  /\ inMemoryCache = <<>>
  /\ dbCache = <<>>
  /\ inMemorySchedule = <<>>
  /\ dbSchedule = <<>>
  /\ pc = "idle"
  /\ cur = NoCur
  /\ out = NoOut
  /\ steps = 0

\* a sheet that is configured and answers every call
InitSink ==
  /\ InitStore
  /\ \E extended \in BOOLEAN : sheet = [NoSheet EXCEPT !.configured = TRUE,
                                                       !.extended = extended]

NoFaults == [id \in DOMAIN products |-> {}]

NextSink ==
  \/ Counted(MaxSinkSteps) /\ \E id \in 1..nextId : Approve(id, {})
  \/ Counted(MaxSinkSteps) /\ \E id \in 1..nextId : Reject(id)
  \/ Counted(MaxSinkSteps) /\ Resync(NoFaults)
  \/ Counted(MaxSinkSteps) /\ \E productData \in SinkRecords :
                                AddApprovedMaker(productData, {})

SpecSink == InitSink /\ [][NextSink]_vars

\* a sheet that may be unconfigured, and calls that may fail
InitOutage ==
  /\ InitStore
  /\ \E configured, extended \in BOOLEAN :
       sheet = [NoSheet EXCEPT !.configured = configured, !.extended = extended]

NextOutage ==
  \/ Counted(MaxOutageSteps) /\ \E id \in 1..nextId, faults \in FaultSets :
                                  Approve(id, faults)
  \/ Counted(MaxOutageSteps) /\ \E faults \in FaultSets :
                                  Resync([id \in DOMAIN products |-> faults])
  \/ Counted(MaxOutageSteps) /\ \E productData \in SinkRecords, faults \in FaultSets :
                                  AddApprovedMaker(productData, faults)

SpecOutage == InitOutage /\ [][NextOutage]_vars

\* the data rows of the sheet, the rows below the header row, that carry a link
RowsForLink(rows, link) == {i \in 2..Len(rows) : SameLink(rows[i].phLink, link)}

\* a data row of another link carries the record's product name and maker name
NameTwin(rows, productData) ==
  \E i \in 2..Len(rows) :
    /\ rows[i].name = productData.name
    /\ rows[i].makerName = productData.makerName
    /\ ~SameLink(rows[i].phLink, productData.phLink)

\* a step in which addApprovedMaker is called once with productData, by a
\* direct call or by the approval of a stored record, the sheet answering
SinkCall(productData) ==
  \/ AddApprovedMaker(productData, {})
  \/ \E id \in DOMAIN products : productData = products[id] /\ Approve(id, {})

SinkCallRecords == SinkRecords \cup {products[id] : id \in DOMAIN products}

\* C8 as stated: every call of addApprovedMaker, from approve, from resync or
\* direct, with a sheet that answers, leaves exactly one data row for the
\* record's normalized link, and a call that finds a row for the link returns
\* true without appending.
C8_ExactlyOneRow ==
  [][/\ \A productData \in SinkCallRecords :
          SinkCall(productData)
          => /\ Cardinality(RowsForLink(sheet'.rows, productData.phLink)) = 1
             /\ RowsForLink(sheet.rows, productData.phLink) # {}
                => out'.ret = "true" /\ sheet'.rows = sheet.rows
     /\ Resync(NoFaults)
        => \A id \in DOMAIN products :
              (products[id].status = "approved" /\ ~products[id].syncedToSheets)
              => Cardinality(RowsForLink(sheet'.rows, products[id].phLink)) = 1]_vars

\* C8: every such call leaves at most one data row for the record's
\* normalized link, and exactly one unless a data row of another link carries
\* the record's product name and maker name; a call that finds a row for the
\* link returns true without appending.
C8_AtMostOneRow ==
  [][/\ \A productData \in SinkCallRecords :
          SinkCall(productData)
          => /\ Cardinality(RowsForLink(sheet'.rows, productData.phLink)) <= 1
             /\ ~NameTwin(sheet.rows, productData)
                => Cardinality(RowsForLink(sheet'.rows, productData.phLink)) = 1
             /\ RowsForLink(sheet.rows, productData.phLink) # {}
                => out'.ret = "true" /\ sheet'.rows = sheet.rows
     /\ Resync(NoFaults)
        => \A id \in DOMAIN products :
              (products[id].status = "approved" /\ ~products[id].syncedToSheets)
              => /\ Cardinality(RowsForLink(sheet'.rows, products[id].phLink)) <= 1
                 /\ ~NameTwin(sheet'.rows, products[id])
                    => Cardinality(RowsForLink(sheet'.rows, products[id].phLink)) = 1]_vars

\* a call with a record of another maker and another spelling of the link
\* found the one row an approval wrote for their common link
C8_Witness ==
  /\ out.op = "addApprovedMaker" /\ out.ret = "true"
  /\ Cardinality(RowsForLink(sheet.rows, out.productData.phLink)) = 1
  /\ \E id \in DOMAIN products :
       /\ products[id].sheetsSynced
       /\ SameLink(products[id].phLink, out.productData.phLink)
       /\ products[id].phLink # out.productData.phLink
       /\ products[id].makerName # out.productData.makerName

\* the sheet cannot be used at all in a call: it is not configured, or every
\* request of the call fails
Unreachable(sh, faults) == ~sh.configured \/ faults = SinkStages

\* C9: approving an existing record answers success and leaves the stored
\* status approved whatever the sheet does; when the sheet is unconfigured or
\* unreachable, or the sync does not succeed for any reason, the answer has
\* sheets.synced = false and a non-empty sheets.error.
C9_ApprovalSurvivesSink ==
  [][\A id \in DOMAIN products, faults \in FaultSets :
       (out'.op = "approve" /\ out'.id = id /\ Approve(id, faults))
       => /\ out'.code = 200 /\ out'.success
          /\ products'[id].status = "approved"
          /\ (Unreachable(sheet, faults) \/ out'.ret # "true")
             => ~out'.synced /\ out'.error \notin {Null, ""}
          /\ out'.synced => products'[id].sheetsSynced]_vars

\* an approval answered while a connected sheet failed every request
C9_Witness ==
  /\ out.op = "approve" /\ out.code = 200 /\ out.success
  /\ ~out.synced /\ out.error = SheetsFailed
  /\ sheet.initialized
  /\ products[out.id].status = "approved"

\* the sheet is lost at connection setup, at the header check, at the
\* duplicate scan or at the row append, and stays lost for the rest of the call
Outages ==
  { SinkStages, {"header", "scan", "append"}, {"scan", "append"}, {"append"} }

\* the data rows are as they were: nothing changed, or only the header row
\* was written to an empty sheet
NoRowWritten == sheet'.rows = sheet.rows \/ (sheet.rows = <<>> /\ sheet'.rows = <<HeaderRow>>)

\* C10 as stated: a call of addApprovedMaker that does not succeed because
\* the sheet is unconfigured or lost at any stage returns false, does not
\* raise, and writes no row.
C10_FalseOnAnyFailure ==
  [][\A productData \in SinkRecords, faults \in FaultSets :
       (/\ out'.op = "addApprovedMaker" /\ out'.productData = productData
        /\ AddApprovedMaker(productData, faults)
        /\ ~sheet.configured \/ (faults \in Outages /\ out'.ret # "true"))
       => out'.ret = "false" /\ NoRowWritten]_vars

\* C10: addApprovedMaker returns false, without raising and without touching
\* the sheet, exactly when the sheet is unconfigured or its connection cannot
\* be set up; it raises only when the row append fails, and does raise when
\* the scan and the append both fail; whenever it returns false or raises, no
\* data row is written.
C10_FalseOrRaise ==
  [][\A productData \in SinkRecords, faults \in FaultSets :
       (/\ out'.op = "addApprovedMaker" /\ out'.productData = productData
        /\ AddApprovedMaker(productData, faults))
       => LET up == sheet.initialized \/ (sheet.configured /\ "init" \notin faults) IN
          /\ ~up => out'.ret = "false" /\ sheet' = sheet
          /\ out'.ret = "false" => ~up
          /\ out'.ret = "throw" => "append" \in faults
          /\ (up /\ {"scan", "append"} \subseteq faults) => out'.ret = "throw"
          /\ out'.ret \in {"false", "throw"} => NoRowWritten]_vars

\* a call that raised on a connected sheet holding rows
C10_Witness ==
  /\ out.op = "addApprovedMaker" /\ out.ret = "throw"
  /\ sheet.initialized
  /\ Len(sheet.rows) >= 2

(***************************************************************************)
(* The pipeline run: POST /cron/fetch                                      *)
(***************************************************************************)
\* config/rssCategories, in the order fetchAllCategories walks it
rssCategories == <<"artificial-intelligence", "developer-tools">>

\* the items each feed answers with during a run, in feed order
RunFeed(category) ==
  IF category = "artificial-intelligence"
  THEN << Entry(Acme, Url("/posts/acme", 0, TRUE), Jane, DescTool, 0),
          Entry(AcmePro, Url("/posts/acme", 1, FALSE), JaneLoud, DescByBob, NoTime) >>
  ELSE << Entry(Acme, Url("/posts/beta", 0, FALSE), Jane, DescTool, 0),
          Entry(Acme, Url("/posts/acme", MaxSlashes, TRUE), NoMaker, DescByBob, 0) >>

\* what one fetch of a feed meets: the feed cannot be fetched, or it can and
\* the processing of item number broken raises (0: of none)
FeedOutcomes == [ok : BOOLEAN, broken : 0..1]

\* the store and the cache, as the stages of a run hand them on
StoreOf(prods, list, id, mem, db) ==
  [products |-> prods, productList |-> list, nextId |-> id, mem |-> mem, db |-> db]

RECURSIVE fetchCategoryLoop(_, _, _, _, _, _, _)
\* the counters of fetchCategory after one more saved item; fetched lists the
\* records whose page the nested enrichProduct requested
fetchCategoryCounted(rest, savedProduct, isNew, fetched) ==
  [st |-> rest.st,
   processed |-> rest.processed + 1,
   newProducts |-> rest.newProducts + (IF isNew THEN 1 ELSE 0),
   duplicates |-> rest.duplicates + (IF isNew THEN 0 ELSE 1),
   newItems |-> (IF isNew THEN <<savedProduct>> ELSE <<>>) \o rest.newItems,
   fetched |-> (IF fetched THEN <<savedProduct.id>> ELSE <<>>) \o rest.fetched]

\* the loop body after enrichProduct: the new-or-duplicate test, then the
\* remaining items
fetchCategoryEnriched(st, saved, enriched, items, i, category, broken, page, t) ==
  fetchCategoryCounted(
    fetchCategoryLoop(StoreOf(enriched.products, saved.productList,
                              IF saved.created THEN st.nextId + 1 ELSE st.nextId,
                              enriched.mem, enriched.db),
                      items, i + 1, category, broken, page, t),
    saved.ret, saved.ret.createdAt = saved.ret.updatedAt, enriched.fetched)

\* the loop body after saveProduct: the nested enrichProduct
fetchCategorySaved(st, saved, items, i, category, broken, page, t) ==
  fetchCategoryEnriched(st, saved,
                        enrichProduct(st.mem, st.db, saved.products, saved.ret, page, t),
                        items, i, category, broken, page, t)

\* the loop body after extractProductData: an item whose processing raises
\* or that yields no product is passed over
fetchCategoryItem(st, productData, items, i, category, broken, page, t) ==
  IF i = broken \/ productData = <<>>
  THEN fetchCategoryLoop(st, items, i + 1, category, broken, page, t)
  ELSE fetchCategorySaved(st,
                          saveProduct(st.products, st.productList, st.nextId,
                                      productData[1], t),
                          items, i, category, broken, page, t)

\* the loop of fetchCategory over feed.items from item i on
fetchCategoryLoop(st, items, i, category, broken, page, t) ==
  IF i > Len(items)
  THEN [st |-> st, processed |-> 0, newProducts |-> 0, duplicates |-> 0, newItems |-> <<>>,
        fetched |-> <<>>]
  ELSE fetchCategoryItem(st, extractProductData(items[i], category, t),
                         items, i, category, broken, page, t)

\* what fetchCategory hands back after its loop
fetchCategoryResults(results) ==
  [st |-> results.st, threw |-> FALSE, processed |-> results.processed,
   newProducts |-> results.newProducts, duplicates |-> results.duplicates,
   newItems |-> results.newItems, fetched |-> results.fetched]

\* RSSService.fetchCategory: threw is TRUE when the feed could not be fetched
fetchCategory(st, category, feed, page, t) ==
  IF ~feed.ok
  THEN [st |-> st, threw |-> TRUE, processed |-> 0, newProducts |-> 0,
        duplicates |-> 0, newItems |-> <<>>, fetched |-> <<>>]
  ELSE fetchCategoryResults(fetchCategoryLoop(st, RunFeed(category), 1, category,
                                              feed.broken, page, t))

\* the totals of fetchAllCategories after one more category: a category
\* whose fetch raised goes to errors
fetchAllCategoriesCounted(rest, category, categoryResult) ==
  IF categoryResult.threw
  THEN [rest EXCEPT !.errors = <<category>> \o @]
  ELSE [st |-> rest.st,
        categories |-> <<category>> \o rest.categories,
        totalProcessed |-> categoryResult.processed + rest.totalProcessed,
        totalNew |-> categoryResult.newProducts + rest.totalNew,
        totalDuplicates |-> categoryResult.duplicates + rest.totalDuplicates,
        errors |-> rest.errors,
        newItems |-> categoryResult.newItems \o rest.newItems,
        fetched |-> categoryResult.fetched \o rest.fetched]

RECURSIVE fetchAllCategoriesFrom(_, _, _, _, _)
\* the loop body of fetchAllCategories giving up at the first category whose
\* fetch raised
fetchAllCategoriesAborting(categoryResult, i, feeds, page, t) ==
  IF categoryResult.threw
  THEN [st |-> categoryResult.st, categories |-> <<>>, totalProcessed |-> 0,
        totalNew |-> 0, totalDuplicates |-> 0, errors |-> <<rssCategories[i]>>,
        newItems |-> <<>>, fetched |-> <<>>]
  ELSE fetchAllCategoriesCounted(
         fetchAllCategoriesFrom(categoryResult.st, i + 1, feeds, page, t),
         rssCategories[i], categoryResult)

\* the loop body after fetchCategory: the remaining categories follow
fetchAllCategoriesNext(categoryResult, i, feeds, page, t) ==
  fetchAllCategoriesCounted(
    fetchAllCategoriesFrom(categoryResult.st, i + 1, feeds, page, t),
    rssCategories[i], categoryResult)

\* the loop of fetchAllCategories from category number i on
fetchAllCategoriesFrom(st, i, feeds, page, t) ==
  IF i > Len(rssCategories)
  THEN [st |-> st, categories |-> <<>>, totalProcessed |-> 0, totalNew |-> 0,
        totalDuplicates |-> 0, errors |-> <<>>, newItems |-> <<>>, fetched |-> <<>>]
  ELSE fetchAllCategoriesNext(
         fetchCategory(st, rssCategories[i], feeds[rssCategories[i]], page, t),
         i, feeds, page, t)

\* RSSService.fetchAllCategories
fetchAllCategories(st, feeds, page, t) == fetchAllCategoriesFrom(st, 1, feeds, page, t)

\* DatabaseService.getProductsNeedingEnrichment
getProductsNeedingEnrichment(prods, list) ==
  SelectSeq(getAllProducts(prods, list), NeedsEnrichment)

RECURSIVE enrichProductsLoop(_, _, _, _, _)
\* the counters of enrichProducts after a product whose processing raised
enrichProductsFailed(rest, product) ==
  [rest EXCEPT !.errors = <<[productId |-> product.id]>> \o @,
               !.failedEnrichments = @ + 1]

\* the counters of enrichProducts after a product that was processed
enrichProductsCounted(rest, linkedinUrl, hit) ==
  [st |-> rest.st,
   totalProcessed |-> rest.totalProcessed + 1,
   successfulEnrichments |->
     rest.successfulEnrichments + (IF linkedinUrl # Null THEN 1 ELSE 0),
   failedEnrichments |->
     rest.failedEnrichments + (IF linkedinUrl # Null THEN 0 ELSE 1),
   cacheHits |-> rest.cacheHits + (IF hit THEN 1 ELSE 0),
   errors |-> rest.errors]

\* the loop body after the cache is read back: the cache-hit test, then the
\* remaining products
enrichProductsCached(st, updated, cachedResult, linkedinUrl, todo, failing, search, t) ==
  enrichProductsCounted(
    enrichProductsLoop([st EXCEPT !.products = updated, !.mem = cachedResult.mem,
                                  !.db = cachedResult.db],
                       Tail(todo), failing, search, t),
    linkedinUrl,
    cachedResult.ret # NullData /\ UrlOfData(cachedResult.ret) = linkedinUrl)

\* the loop body after findLinkedInProfile: updateProductLinkedIn, then
\* getLinkedInCache
enrichProductsFound(st, found, product, todo, failing, search, t) ==
  enrichProductsCached(st,
                       updateProductLinkedIn(st.products, product.id, found.ret, t),
                       getLinkedInCache(found.mem, found.db, product.makerName, t),
                       found.ret, todo, failing, search, t)

\* the loop of enrichProducts over the products it was given or read at the
\* start; the processing of the record with id failing raises
enrichProductsLoop(st, todo, failing, search, t) ==
  IF todo = <<>>
  THEN [st |-> st, totalProcessed |-> 0, successfulEnrichments |-> 0,
        failedEnrichments |-> 0, cacheHits |-> 0, errors |-> <<>>]
  ELSE IF Head(todo).id = failing
       THEN enrichProductsFailed(enrichProductsLoop(st, Tail(todo), failing, search, t),
                                 Head(todo))
       ELSE enrichProductsFound(st,
                                findLinkedInProfile(st.mem, st.db, Head(todo).makerName,
                                                    search, t),
                                Head(todo), todo, failing, search, t)

\* LinkedInEnrichmentService.enrichProducts()
enrichProducts(st, failing, search, t) ==
  enrichProductsLoop(st, getProductsNeedingEnrichment(st.products, st.productList),
                     failing, search, t)

\* the retry budget enrichProduct gives fetchWithRetry
PhRetries == 5

\* PhEnrichmentService.fetchWithRetry when the first failures attempts fail:
\* whether a response came back, and the attempts made
fetchWithRetry(failures, retries) ==
  [ok |-> failures < retries,
   attempts |-> IF failures < retries THEN failures + 1 ELSE retries]

\* what enrichProduct reads from the page after fetchWithRetry
PageAfter(failures, page) ==
  IF fetchWithRetry(failures, PhRetries).ok THEN page
  ELSE [ok |-> FALSE, linkedin |-> Null, phGithub |-> Null, thumbnail |-> Null]

\* the numbers of failing attempts a page fetch meets
FailureCounts == {0, PhRetries - 1, PhRetries}

RECURSIVE enrichNewProductsLoop(_, _, _, _)
\* the counter of enrichNewProducts after one more product: it counts the
\* product when a link or the thumbnail differs from what was handed in
enrichNewProductsCounted(rest, product, updatedProduct, fetched) ==
  [st |-> rest.st,
   totalEnriched |->
     rest.totalEnriched
       + (IF \/ updatedProduct.linkedin # product.linkedin
             \/ updatedProduct.phGithub # product.phGithub
             \/ updatedProduct.thumbnail # product.thumbnail
          THEN 1 ELSE 0),
   fetched |-> (IF fetched THEN <<product.id>> ELSE <<>>) \o rest.fetched]

\* the loop body after enrichProduct
enrichNewProductsEnriched(st, enriched, todo, page, t) ==
  enrichNewProductsCounted(
    enrichNewProductsLoop([st EXCEPT !.products = enriched.products,
                                     !.mem = enriched.mem, !.db = enriched.db],
                          Tail(todo), page, t),
    Head(todo), enriched.ret, enriched.fetched)

\* the loop of enrichNewProducts: a product enriched within the expiry is
\* passed over
enrichNewProductsLoop(st, todo, page, t) ==
  IF todo = <<>> THEN [st |-> st, totalEnriched |-> 0, fetched |-> <<>>]
  ELSE IF Head(todo).phEnrichedAt # NoTime /\ t - Head(todo).phEnrichedAt < phCacheExpiry
       THEN enrichNewProductsLoop(st, Tail(todo), page, t)
       ELSE enrichNewProductsEnriched(
              st, enrichProduct(st.mem, st.db, st.products, Head(todo), page, t),
              todo, page, t)

\* what enrichNewProducts hands back after its loop: nothing is ever pushed
\* to errors; fetched lists the records whose page was requested
enrichNewProductsResults(done) ==
  [st |-> done.st, totalEnriched |-> done.totalEnriched, errors |-> <<>>,
   fetched |-> done.fetched]

\* PhEnrichmentService.enrichNewProducts
enrichNewProducts(st, items, page, t) ==
  enrichNewProductsResults(enrichNewProductsLoop(st, items, page, t))

\* the job name of POST /cron/fetch
RssFetch == "rss-fetch"

\* the stage results the handler substitutes when a stage raises
EnrichmentFailed ==
  [totalProcessed |-> 0, successfulEnrichments |-> 0, failedEnrichments |-> 0,
   cacheHits |-> 0, errors |-> <<[error |-> "stage"]>>]
PhEnrichmentFailed == [totalEnriched |-> 0, errors |-> <<[error |-> "stage"]>>, fetched |-> <<>>]

\* the reason shouldJobRun gives with a refusal: the minutes, rounded, until
\* the next run is allowed
TooRecent(lastRun, t) ==
  [text |-> "Job ran too recently",
   minutes |-> (2 * (defaultIntervalMinutes * MinuteMs - (t - lastRun.timestamp))
                + MinuteMs) \div (2 * MinuteMs)]

\* the handler asks the run gate; a blocked trigger is answered at once
Trigger(r) ==
  /\ pc[r] = "idle"
  /\ LET scheduleCheck == shouldJobRun(inMemorySchedule, dbSchedule, RssFetch,
                                       NoOverride, TRUE, now)
     IN /\ inMemorySchedule' = scheduleCheck.mem
        /\ IF ~scheduleCheck.shouldRun
           THEN /\ out' = [op |-> "fetch", r |-> r, code |-> 200, success |-> TRUE,
                           skipped |-> TRUE, schedule |-> scheduleCheck.lastRun,
                           reason |-> TooRecent(scheduleCheck.lastRun, now)]
                /\ UNCHANGED <<pc, cur>>
           ELSE /\ pc' = [pc EXCEPT ![r] = "fetch"]
                /\ cur' = [cur EXCEPT ![r] = [op |-> "fetch", startTime |-> now]]
                /\ UNCHANGED out
  /\ UNCHANGED <<now, storeVars, cacheVars, dbSchedule, sheet>>

\* a stage's results as the handler keeps them
StageResults(done) == [g \in DOMAIN done \ {"st"} |-> done[g]]

\* the store and the cache as a stage leaves them
StoreAfter(st) ==
  /\ products' = st.products
  /\ productList' = st.productList
  /\ nextId' = st.nextId
  /\ inMemoryCache' = st.mem
  /\ dbCache' = st.db

\* the handler's locals with one more stage's results
WithResults(run, name, results) ==
  [f \in DOMAIN run \cup {name} |-> IF f = name THEN results ELSE run[f]]

\* rssResults = await rssService.fetchAllCategories(); created notes the ids
\* of the records the stage stored
FetchDone(r, rssResults) ==
  /\ StoreAfter(rssResults.st)
  /\ cur' = [cur EXCEPT ![r] =
               WithResults(WithResults(@, "rss", StageResults(rssResults)),
                           "created", DOMAIN rssResults.st.products \ DOMAIN products)]

\* rssService.fetchAllCategories()
FetchStage(r, feeds, page) ==
  /\ pc[r] = "fetch"
  /\ FetchDone(r, fetchAllCategories(
                    StoreOf(products, productList, nextId, inMemoryCache, dbCache),
                    feeds, page, now))
  /\ pc' = [pc EXCEPT ![r] = "linkedin"]
  /\ UNCHANGED <<now, schedVars, sheet, out>>

\* enrichmentResults = await linkedinEnrichmentService.enrichProducts()
LinkedInDone(r, done) ==
  /\ StoreAfter(done.st)
  /\ cur' = [cur EXCEPT ![r] = WithResults(@, "enrichment", StageResults(done))]

\* linkedinEnrichmentService.enrichProducts() inside the handler's try: a
\* stage that raises leaves the substitute results
LinkedInStage(r, stageOk, failing, search) ==
  /\ pc[r] = "linkedin"
  /\ IF stageOk
     THEN LinkedInDone(r, enrichProducts(
                            StoreOf(products, productList, nextId, inMemoryCache, dbCache),
                            failing, search, now))
     ELSE /\ cur' = [cur EXCEPT ![r] = WithResults(@, "enrichment", EnrichmentFailed)]
          /\ UNCHANGED <<storeVars, cacheVars>>
  /\ pc' = [pc EXCEPT ![r] = "ph"]
  /\ UNCHANGED <<now, schedVars, sheet, out>>

\* phEnrichmentResults = await phEnrichmentService.enrichNewProducts(...)
PhDone(r, failures, done) ==
  /\ StoreAfter(done.st)
  /\ cur' = [cur EXCEPT ![r] =
               WithResults(WithResults(@, "phEnrichment", StageResults(done)),
                           "failures", failures)]

\* phEnrichmentService.enrichNewProducts(rssResults.newItems) inside the
\* handler's try: a stage that raises leaves the substitute results
PhStage(r, stageOk, failures, page) ==
  /\ pc[r] = "ph"
  /\ IF stageOk
     THEN PhDone(r, failures,
                 enrichNewProducts(
                   StoreOf(products, productList, nextId, inMemoryCache, dbCache),
                   cur[r].rss.newItems, PageAfter(failures, page), now))
     ELSE /\ cur' = [cur EXCEPT ![r] =
                       WithResults(WithResults(@, "phEnrichment", PhEnrichmentFailed),
                                   "failures", failures)]
          /\ UNCHANGED <<storeVars, cacheVars>>
  /\ pc' = [pc EXCEPT ![r] = "record"]
  /\ UNCHANGED <<now, schedVars, sheet, out>>

\* the results the handler hands to recordJobRun
JobResults(run) ==
  [rss |-> run.rss, enrichment |-> run.enrichment, phEnrichment |-> run.phEnrichment]

\* scheduleService.recordJobRun(jobName, jobResults) and the answer
RecordStage(r, writeOk) ==
  /\ pc[r] = "record"
  /\ LET recorded == recordJobRun(inMemorySchedule, dbSchedule, RssFetch,
                                  JobResults(cur[r]), TRUE, writeOk, now)
     IN /\ inMemorySchedule' = recorded.mem
        /\ dbSchedule' = recorded.db
  /\ out' = [op |-> "fetch", r |-> r, code |-> 200, success |-> TRUE, skipped |-> FALSE,
             results |-> JobResults(cur[r]), failures |-> cur[r].failures]
  /\ pc' = [pc EXCEPT ![r] = "idle"]
  /\ cur' = [cur EXCEPT ![r] = NoCur]
  /\ UNCHANGED <<now, storeVars, cacheVars, sheet>>

\* time passes, a minute at a time
TickRun ==
  /\ now < MaxRunTicks * MinuteMs
  /\ now' = now + MinuteMs
  /\ UNCHANGED <<storeVars, cacheVars, schedVars, sheet, pc, cur, out>>

\* the requests in flight: triggers served one after another
Requests == {1}

InitRun ==
  /\ now = 0
  /\ products = <<>>
  /\ productList = <<>>
  /\ nextId = 1
  /\ inMemoryCache = <<>>
  /\ dbCache = <<>>
  /\ inMemorySchedule = <<>>
  /\ dbSchedule = <<>>
  /\ sheet = NoSheet
  /\ pc = [r \in Requests |-> "idle"]
  /\ cur = [r \in Requests |-> NoCur]
  /\ out = NoOut
  /\ steps = 0

\* the feeds of a run: each category's feed fails or answers, and the first
\* item of every feed that answers is processed without error or not
RunFeeds ==
  {[category \in Categories |-> [ok |-> ok[category], broken |-> broken]] :
     ok \in [Categories -> BOOLEAN], broken \in 0..1}

NextRun ==
  \/ Counted(MaxRunSteps) /\ \E r \in Requests : Trigger(r)
  \/ Counted(MaxRunSteps) /\ \E r \in Requests, feeds \in RunFeeds, page \in PageOutcomes :
                               FetchStage(r, feeds, page)
  \/ Counted(MaxRunSteps) /\ \E r \in Requests, stageOk \in BOOLEAN, failing \in 0..1,
                                search \in SearchOutcomes :
                               LinkedInStage(r, stageOk, failing, search)
  \/ Counted(MaxRunSteps) /\ \E r \in Requests, stageOk \in BOOLEAN,
                                failures \in FailureCounts, page \in PageOutcomes :
                               PhStage(r, stageOk, failures, page)
  \/ Counted(MaxRunSteps) /\ \E r \in Requests, writeOk \in BOOLEAN : RecordStage(r, writeOk)
  \/ Counted(MaxRunSteps) /\ TickRun

SpecRun == InitRun /\ [][NextRun]_vars

\* the positions of a run between the gate and the recording of the run
Stages == {"fetch", "linkedin", "ph", "record"}

\* the position that follows each position of a run
NextStage(stage) ==
  CASE stage = "fetch" -> "linkedin"
    [] stage = "linkedin" -> "ph"
    [] stage = "ph" -> "record"
    [] stage = "record" -> "idle"

\* C11: every run that passed the run gate goes through its stages in order
\* whatever failed in them, touches the job's mark in none of them, and ends
\* only by recordJobRun, called once with the run's results; after it the
\* mark holds these results and shouldJobRun answers false.
C11_RunEndsRecorded ==
  [][\A r \in Requests :
       /\ (pc[r] \in Stages /\ pc'[r] # pc[r]) => pc'[r] = NextStage(pc[r])
       /\ (pc[r] \in Stages \ {"record"}) => UNCHANGED schedVars
       /\ (pc[r] \in Stages /\ pc'[r] = "idle")
          => /\ out'.op = "fetch" /\ ~out'.skipped
             /\ out'.results = JobResults(cur[r])
             /\ RssFetch \in DOMAIN inMemorySchedule'
             /\ inMemorySchedule'[RssFetch] = [timestamp |-> now, results |-> out'.results]
             /\ ~shouldJobRun(inMemorySchedule', dbSchedule', RssFetch, NoOverride,
                              TRUE, now').shouldRun]_vars

\* a run recorded although a feed fetch, the profile-lookup stage and the
\* detail-scrape stage all failed
C11_Witness ==
  /\ out.op = "fetch" /\ ~out.skipped
  /\ out.results.rss.errors # <<>>
  /\ out.results.enrichment = EnrichmentFailed
  /\ out.results.phEnrichment = PhEnrichmentFailed
  /\ RssFetch \in DOMAIN inMemorySchedule
  /\ inMemorySchedule[RssFetch].results = out.results

\* C12: a trigger that the run gate refuses fetches no feed, creates or
\* changes no record and no cache entry, starts no stage, leaves the job's
\* mark (timestamp and results) as it was, and is answered as skipped with
\* the mark and the reason of the refusal.
C12_BlockedTriggerDoesNothing ==
  [][\A r \in Requests :
       (/\ out'.op = "fetch" /\ Trigger(r)
        /\ ~shouldJobRun(inMemorySchedule, dbSchedule, RssFetch, NoOverride,
                         TRUE, now).shouldRun)
       => /\ UNCHANGED <<storeVars, cacheVars, dbSchedule, sheet, pc, cur>>
          /\ MarkExists(RssFetch) /\ MarkExists(RssFetch)'
          /\ MarkOf(RssFetch)' = MarkOf(RssFetch)
          /\ out'.success /\ out'.skipped /\ out'.code = 200
          /\ out'.schedule = MarkOf(RssFetch)
          /\ out'.reason = TooRecent(MarkOf(RssFetch), now)
          /\ out'.reason.minutes > 0]_vars

\* a trigger refused a minute after a run that had stored new records
C12_Witness ==
  /\ out.op = "fetch" /\ out.skipped
  /\ now > out.schedule.timestamp
  /\ out.schedule.results.rss.totalNew > 0
  /\ products # <<>>

\* the members of a list
Members(list) == {list[i] : i \in DOMAIN list}

RECURSIVE ItemsProcessed(_, _)
\* the items of the feeds that answered, from category number i on, without
\* the item whose processing raises
ItemsProcessed(feeds, i) ==
  IF i > Len(rssCategories) THEN 0
  ELSE (IF feeds[rssCategories[i]].ok
        THEN Cardinality(DOMAIN RunFeed(rssCategories[i]) \ {feeds[rssCategories[i]].broken})
        ELSE 0)
       + ItemsProcessed(feeds, i + 1)

\* C13: within one run, a feed that cannot be fetched is listed in errors
\* and every other category is processed; an item whose processing raises or
\* whose page cannot be fetched leaves every other item of the feed
\* processed and stored; a record whose profile lookup raises leaves every
\* other record needing a profile processed; every new item is looked at by
\* the detail scrape whatever page fetches fail; and the detail scrape, with
\* the new items of the run, follows the profile-lookup stage also when that
\* stage raised as a whole.
C13_FailuresAreIsolated ==
  [][\A r \in Requests :
       /\ \A feeds \in RunFeeds, page \in PageOutcomes :
            (pc[r] = "fetch" /\ FetchStage(r, feeds, page))
            => /\ \A category \in Categories :
                    /\ feeds[category].ok <=> category \in Members(cur'[r].rss.categories)
                    /\ ~feeds[category].ok <=> category \in Members(cur'[r].rss.errors)
                    /\ feeds[category].ok
                       => \A i \in DOMAIN RunFeed(category) \ {feeds[category].broken} :
                            findProductByLink(
                              products', productList',
                              extractProductData(RunFeed(category)[i], category,
                                                 now)[1].phLink) # <<>>
               /\ cur'[r].rss.totalProcessed = ItemsProcessed(feeds, 1)
       /\ \A failing \in 0..1, search \in SearchOutcomes :
            (pc[r] = "linkedin" /\ LinkedInStage(r, TRUE, failing, search))
            => /\ cur'[r].enrichment.totalProcessed
                    = Cardinality({i \in DOMAIN products :
                                     NeedsEnrichment(products[i]) /\ i # failing})
               /\ Members(cur'[r].enrichment.errors)
                    = {[productId |-> i] : i \in {j \in DOMAIN products :
                                                    NeedsEnrichment(products[j]) /\ j = failing}}
       /\ \A failures \in FailureCounts, page \in PageOutcomes :
            (pc[r] = "ph" /\ PhStage(r, TRUE, failures, page))
            => \A i \in DOMAIN cur[r].rss.newItems :
                 \/ cur[r].rss.newItems[i].id \in Members(cur'[r].phEnrichment.fetched)
                 \/ cacheGetItem(inMemoryCache', dbCache',
                                 PhKey(cur[r].rss.newItems[i].id), now).ret # NullData
       /\ (pc[r] = "linkedin" /\ pc'[r] # "linkedin")
          => /\ pc'[r] = "ph"
             /\ cur'[r].rss = cur[r].rss]_vars

\* a run in which the first feed could not be fetched, an item of the second
\* raised, a profile lookup raised, the profile-lookup stage raised as a
\* whole or not, and yet records were stored and their pages requested
C13_Witness ==
  /\ out.op = "fetch" /\ ~out.skipped
  /\ out.results.rss.errors = <<"artificial-intelligence">>
  /\ out.results.rss.categories = <<"developer-tools">>
  /\ out.results.rss.totalProcessed = 1
  /\ out.results.enrichment = EnrichmentFailed
  /\ out.results.phEnrichment.fetched # <<>>
  /\ out.failures = PhRetries

\* C14: when every attempt to fetch a record's page fails and the retry
\* budget is used up, enrichNewProducts returns an errors list holding an
\* entry for that record, and goes on to the next record.
C14_ExhaustedRetriesReported ==
  [][\A r \in Requests, page \in PageOutcomes :
       (pc[r] = "ph" /\ PhStage(r, TRUE, PhRetries, page))
       => /\ ~fetchWithRetry(PhRetries, PhRetries).ok
          /\ \A i \in DOMAIN cur[r].rss.newItems :
               cur[r].rss.newItems[i].id \in Members(cur'[r].phEnrichment.fetched)
               => \E e \in Members(cur'[r].phEnrichment.errors) :
                    e.productId = cur[r].rss.newItems[i].id]_vars

(***************************************************************************)
(* Overlapping triggers of POST /cron/fetch                                *)
(***************************************************************************)
\* two requests whose handlers interleave at their awaits
Racers == {1, 2}

InitRace ==
  /\ now = 0
  /\ products = <<>>
  /\ productList = <<>>
  /\ nextId = 1
  /\ inMemoryCache = <<>>
  /\ dbCache = <<>>
  /\ inMemorySchedule = <<>>
  /\ dbSchedule = <<>>
  /\ sheet = NoSheet
  /\ pc = [r \in Racers |-> "idle"]
  /\ cur = [r \in Racers |-> NoCur]
  /\ out = NoOut
  /\ steps = 0

NextRace ==
  \/ Counted(MaxRaceSteps) /\ \E r \in Racers : Trigger(r)
  \/ Counted(MaxRaceSteps) /\ \E r \in Racers, feeds \in RunFeeds, page \in PageOutcomes :
                                FetchStage(r, feeds, page)
  \/ Counted(MaxRaceSteps) /\ \E r \in Racers, stageOk \in BOOLEAN, failing \in 0..1,
                                 search \in SearchOutcomes :
                                LinkedInStage(r, stageOk, failing, search)
  \/ Counted(MaxRaceSteps) /\ \E r \in Racers, stageOk \in BOOLEAN,
                                 failures \in FailureCounts, page \in PageOutcomes :
                                PhStage(r, stageOk, failures, page)
  \/ Counted(MaxRaceSteps) /\ \E r \in Racers, writeOk \in BOOLEAN : RecordStage(r, writeOk)
  \/ Counted(MaxRaceSteps) /\ TickRun

SpecRace == InitRace /\ [][NextRace]_vars

\* the runs in progress: past the shouldJobRun check, before recordJobRun
InProgress == {r \in DOMAIN pc : pc[r] \in Stages}

\* C15: under triggers that may overlap, at no time are two runs of the job
\* in progress at once.
C15_OneRunAtATime == Cardinality(InProgress) <= 1

(***************************************************************************)
(* Run gate: unreadable marks, forced runs and cleanup                     *)
(***************************************************************************)
\* C16: when shouldJobRun has to read the job's mark from the store and the
\* read fails, it answers shouldRun = true with no mark.
C16_FailsOpen ==
  [][\A jobName \in Jobs, intervalHours \in Overrides :
       (/\ out'.op = "shouldJobRun"
        /\ jobName \notin DOMAIN inMemorySchedule
        /\ ShouldJobRun(jobName, intervalHours, FALSE))
       => /\ out'.shouldRun
          /\ out'.lastRun = NoMark
          /\ UNCHANGED schedVars]_vars

\* a run admitted because the store could not be read, although the store
\* holds a mark younger than the interval
C16_Witness ==
  /\ out.op = "shouldJobRun" /\ ~out.readOk /\ out.shouldRun
  /\ out.jobName \notin DOMAIN inMemorySchedule
  /\ out.jobName \in DOMAIN dbSchedule
  /\ now - dbSchedule[out.jobName].timestamp < defaultIntervalMinutes * MinuteMs

\* C17: after forceJobRunnable(job) the job's mark is absent from the store
\* and from the memory map, the next shouldJobRun(job) answers true, and the
\* marks of the other jobs are unchanged.
C17_ForceClearsMark ==
  [][\A jobName \in Jobs, readOk, writeOk \in BOOLEAN :
       (out'.op = "forceJobRunnable" /\ ForceJobRunnable(jobName, readOk, writeOk))
       => /\ jobName \notin DOMAIN dbSchedule'
          /\ jobName \notin DOMAIN inMemorySchedule'
          /\ shouldJobRun(inMemorySchedule', dbSchedule', jobName, NoOverride,
                          TRUE, now').shouldRun
          /\ \A other \in Jobs \ {jobName} :
               /\ other \in DOMAIN dbSchedule <=> other \in DOMAIN dbSchedule'
               /\ other \in DOMAIN dbSchedule => dbSchedule'[other] = dbSchedule[other]
               /\ other \in DOMAIN inMemorySchedule <=> other \in DOMAIN inMemorySchedule'
               /\ other \in DOMAIN inMemorySchedule
                  => inMemorySchedule'[other] = inMemorySchedule[other]]_vars

\* C18: after cleanupOldSchedules(daysToKeep) no mark older than daysToKeep
\* days, and none without a timestamp, is left in the store or in the memory
\* map, and every mark within the retention window is still there.
C18_CleanupRemovesOldMarks ==
  [][\A daysToKeep \in DaysToKeep :
       (out'.op = "cleanupOldSchedules" /\ CleanupOldSchedules(daysToKeep, TRUE, TRUE))
       => \A jobName \in DOMAIN dbSchedule :
            IF \/ dbSchedule[jobName].timestamp = NoTime
               \/ BeforeCutoff(dbSchedule[jobName].timestamp, daysToKeep, now)
            THEN /\ jobName \notin DOMAIN dbSchedule'
                 /\ jobName \notin DOMAIN inMemorySchedule'
            ELSE /\ jobName \in DOMAIN dbSchedule'
                 /\ dbSchedule'[jobName] = dbSchedule[jobName]]_vars

(***************************************************************************)
(* The key namespaces of the store: a pipeline run fills them, a forced    *)
(* run deletes a mark, and getKeysByPattern lists them                     *)
(***************************************************************************)
\* dbService.getKeysByPattern('<ns>*')
GetKeysByPattern(ns, readOk) ==
  /\ out' = [op |-> "getKeysByPattern", ns |-> ns, readOk |-> readOk,
             keys |-> getKeysByPattern(ns, LocalData(productList, dbCache, dbSchedule,
                                                     readOk))]
  /\ UNCHANGED <<now, storeVars, cacheVars, schedVars, sheet, pc, cur>>

NextKeys ==
  \/ Counted(MaxKeySteps) /\ \E r \in Requests : Trigger(r)
  \/ Counted(MaxKeySteps) /\ \E r \in Requests, feeds \in RunFeeds, page \in PageOutcomes :
                               FetchStage(r, feeds, page)
  \/ Counted(MaxKeySteps) /\ \E r \in Requests, stageOk \in BOOLEAN, failing \in 0..1,
                                search \in SearchOutcomes :
                               LinkedInStage(r, stageOk, failing, search)
  \/ Counted(MaxKeySteps) /\ \E r \in Requests, stageOk \in BOOLEAN,
                                failures \in FailureCounts, page \in PageOutcomes :
                               PhStage(r, stageOk, failures, page)
  \/ Counted(MaxKeySteps) /\ \E r \in Requests, writeOk \in BOOLEAN : RecordStage(r, writeOk)
  \/ Counted(MaxKeySteps) /\ \E readOk, writeOk \in BOOLEAN :
                               ForceJobRunnable(RssFetch, readOk, writeOk)
  \/ Counted(MaxKeySteps) /\ \E ns \in Namespaces, readOk \in BOOLEAN :
                               GetKeysByPattern(ns, readOk)

SpecKeys == InitRun /\ [][NextKeys]_vars

\* the keys of a namespace that were set and not deleted
KeysOf(ns) ==
  IF ns = ProductNs THEN {ProductKey(id) : id \in DOMAIN products}
  ELSE IF ns = ScheduleNs THEN {ScheduleKey(jobName) : jobName \in DOMAIN dbSchedule}
  ELSE {key \in DOMAIN dbCache : key.ns = ns}

\* C19: for each namespace, getKeysByPattern('<namespace>*') on a readable
\* store returns exactly the keys of that namespace that were set and not
\* deleted, and no key of another namespace.
C19_KeysOfNamespace ==
  [][\A ns \in Namespaces :
       (out'.op = "getKeysByPattern" /\ GetKeysByPattern(ns, TRUE))
       => /\ out'.keys = KeysOf(ns)
          /\ \A key \in out'.keys : key.ns = ns]_vars

(***************************************************************************)
(* Writes addressed to a record id: approve, reject, PATCH                 *)
(* /api/products/:id and GET /api/ph-upvotes                               *)
(***************************************************************************)
\* the bodies of PATCH /api/products/:id
PatchFields == {[makerName |-> Bob], [status |-> "pending"]}

\* PATCH /api/products/:id
PatchProduct(id, fields) ==
  /\ LET updated == updateProductFields(products, id, fields, now) IN
     /\ products' = updated.products
     /\ out' = IF updated.ret # <<>>
               THEN [op |-> "patch", id |-> id, code |-> 200, success |-> TRUE]
               ELSE [op |-> "patch", id |-> id, code |-> 404, success |-> FALSE]
  /\ UNCHANGED <<now, productList, nextId, cacheVars, schedVars, sheet, pc, cur>>

\* GET /api/ph-upvotes?url=...&productId=...: the page is fetched and the
\* count read from it, the record is updated with the count and the name,
\* and the answer does not look at what updateProductFields returned
PhUpvotes(productId, pageOk, upvotes) ==
  /\ IF ~pageOk
     THEN /\ out' = [op |-> "ph-upvotes", id |-> productId, code |-> 500,
                     success |-> FALSE]
          /\ UNCHANGED products
     ELSE /\ products' = updateProductFields(products, productId,
                                             [upvotes |-> upvotes, name |-> Acme],
                                             now).products
          /\ out' = [op |-> "ph-upvotes", id |-> productId, code |-> 200,
                     success |-> TRUE, upvotes |-> upvotes]
  /\ UNCHANGED <<now, productList, nextId, cacheVars, schedVars, sheet, pc, cur>>

NextWrites ==
  \/ Counted(MaxWriteSteps) /\ \E id \in 1..nextId : Approve(id, {})
  \/ Counted(MaxWriteSteps) /\ \E id \in 1..nextId : Reject(id)
  \/ Counted(MaxWriteSteps) /\ \E id \in 1..nextId, fields \in PatchFields :
                                 PatchProduct(id, fields)
  \/ Counted(MaxWriteSteps) /\ \E id \in 1..nextId, pageOk \in BOOLEAN, upvotes \in 0..1 :
                                 PhUpvotes(id, pageOk, upvotes)

SpecWrites == InitSink /\ [][NextWrites]_vars

\* the requests that write to the record they address
WriteOps == {"approve", "reject", "patch", "ph-upvotes"}

\* C20: a write addressed to a record id that is not in the store (an
\* approval, a rejection, an update of fields, or the update that follows a
\* page that was fetched and read) is answered with not found, creates no
\* record and sends nothing to the sheet.
C20_UnknownIdIsNotFound ==
  [][\A id \in 1..nextId :
       (/\ out'.op \in WriteOps
        /\ id \notin DOMAIN products
        /\ \/ Approve(id, {})
           \/ Reject(id)
           \/ \E fields \in PatchFields : PatchProduct(id, fields)
           \/ \E upvotes \in 0..1 : PhUpvotes(id, TRUE, upvotes))
       => /\ out'.code = 404 /\ ~out'.success
          /\ UNCHANGED <<products, productList, sheet>>]_vars


(***************************************************************************)
(* Profile lookups over the two-tier cache: findLinkedInProfile for maker  *)
(* names that share or do not share a cache key, a process restart, and    *)
(* time.  Looking up three keys overfills the in-memory tier.  cur         *)
(* remembers, for each cache key, the last lookup that found a profile     *)
(* URL by calling the search.                                              *)
(***************************************************************************)
Underscore == <<"_">>

\* Jane and JaneBang clean to the key "jane", Underscore and Blank to "_"
FoundNames == {Jane, JaneBang, Bob, Underscore, Blank}

\* what the search answers: one of two profiles, or none
LookupSearches ==
  {[kind |-> "found", url |-> JaneProfile],
   [kind |-> "found", url |-> BobProfile],
   [kind |-> "none", url |-> Null]}

InitLookup ==
  /\ now = 0
  /\ products = <<>>
  /\ productList = <<>>
  /\ nextId = 1
  /\ inMemoryCache = <<>>
  /\ dbCache = <<>>
  /\ inMemorySchedule = <<>>
  /\ dbSchedule = <<>>
  /\ sheet = NoSheet
  /\ pc = "idle"
  /\ cur = <<>>
  /\ out = NoOut
  /\ steps = 0

\* linkedInEnrichmentService.findLinkedInProfile(makerName)
FindLinkedInProfile(makerName, search) ==
  /\ LET found == findLinkedInProfile(inMemoryCache, dbCache, makerName, search, now) IN
     /\ inMemoryCache' = found.mem
     /\ dbCache' = found.db
     /\ out' = [op |-> "lookup", key |-> LinkedInKey(makerName), ret |-> found.ret,
                called |-> found.called, at |-> now]
     /\ cur' = IF found.called /\ found.ret # Null
               THEN (LinkedInKey(makerName) :> [url |-> found.ret, at |-> now]) @@ cur
               ELSE cur
  /\ UNCHANGED <<now, storeVars, schedVars, sheet, pc>>

RestartLookup ==
  /\ inMemoryCache # <<>>
  /\ inMemoryCache' = <<>>
  /\ UNCHANGED <<now, dbCache, storeVars, schedVars, sheet, pc, cur, out>>

NextLookup ==
  \/ Counted(MaxLookupSteps) /\ \E makerName \in FoundNames, search \in LookupSearches :
                                  FindLinkedInProfile(makerName, search)
  \/ Counted(MaxLookupSteps) /\ RestartLookup
  \/ Counted(MaxLookupSteps) /\ TickCache

SpecLookup == InitLookup /\ [][NextLookup]_vars

\* the last search that found a profile for the key of makerName is younger
\* than the cache lifetime
FoundBefore(makerName) ==
  /\ LinkedInKey(makerName) \in DOMAIN cur
  /\ now - cur[LinkedInKey(makerName)].at < cacheExpiry

\* C21 as stated: once a lookup has found a profile URL, every later lookup
\* for a name with the same cleaned cache key, made before the cache expiry,
\* returns that URL without calling the external search.
C21_FoundProfileIsCached ==
  [][\A makerName \in FoundNames, search \in LookupSearches :
       (FoundBefore(makerName) /\ FindLinkedInProfile(makerName, search))
       => (out'.ret = cur[LinkedInKey(makerName)].url /\ ~out'.called)]_vars

\* C21: once a lookup has found a profile URL, every later lookup for a
\* non-blank name with the same cleaned cache key, made before the cache
\* expiry, returns that URL without calling the external search, also after
\* the in-memory tier was emptied by a restart or lost the entry by eviction;
\* a lookup for a blank name returns not-found without a search.
C21_FoundProfileIsCachedForNames ==
  [][\A makerName \in FoundNames, search \in LookupSearches :
       (FoundBefore(makerName) /\ FindLinkedInProfile(makerName, search))
       => /\ ~out'.called
          /\ out'.ret = IF Trim(makerName) = <<>> THEN Null
                        ELSE cur[LinkedInKey(makerName)].url]_vars

\* a lookup answered with the URL found earlier, from the persistent tier:
\* the entry stands in the in-memory tier behind an entry written after it
C21_Witness ==
  /\ out.op = "lookup" /\ ~out.called /\ out.ret # Null
  /\ out.key \in DOMAIN cur /\ cur[out.key].at < out.at
  /\ \E i, j \in 1..Len(inMemoryCache) :
       /\ i < j
       /\ inMemoryCache[j].key = out.key
       /\ inMemoryCache[i].timestamp > inMemoryCache[j].timestamp


(***************************************************************************)
(* The detail scrape and the fields stored on a record                     *)
(***************************************************************************)
\* the enrichment fields the detail scrape extracts from the page
ScrapedFields == {"linkedin", "phGithub", "thumbnail"}

\* after a scrape that read found from the page, every record stored before
\* keeps each non-empty field, and each field the page gave no value for
ScrapeKeeps(found) ==
  \A id \in DOMAIN products, f \in ScrapedFields :
    /\ products[id][f] # Null => products'[id][f] # Null
    /\ found[f] = Null => products'[id][f] = products[id][f]

\* C22: a detail scrape of a record never replaces a non-empty enrichment
\* field stored on the record with an empty value, a profile URL written by
\* the profile lookup earlier in the same run included: a field for which
\* the page yields no value is stored after the scrape as it was before.
C22_ScrapeKeepsStoredFields ==
  [][/\ \A r \in Requests, feeds \in RunFeeds, page \in PageOutcomes :
          (pc[r] = "fetch" /\ FetchStage(r, feeds, page)) => ScrapeKeeps(page)
     /\ \A r \in Requests, stageOk \in BOOLEAN, failures \in FailureCounts,
           page \in PageOutcomes :
          (pc[r] = "ph" /\ PhStage(r, stageOk, failures, page))
          => ScrapeKeeps(PageAfter(failures, page))]_vars


(***************************************************************************)
(* New records and duplicates in the results of a fetch                    *)
(***************************************************************************)
\* the ids of the records a step of the run creates
Created == DOMAIN products' \ DOMAIN products

\* C23: in the results of a fetch (fetchAllCategories sums the results of
\* fetchCategory over the categories), the records counted in newProducts
\* and returned in newItems are exactly the records the fetch created, each
\* once; every other sighting is counted in duplicates, so that
\* processed = newProducts + duplicates.
C23_NewMeansCreated ==
  [][\A r \in Requests :
       (pc[r] = "fetch" /\ pc'[r] = "linkedin")
       => /\ {cur'[r].rss.newItems[i].id : i \in DOMAIN cur'[r].rss.newItems} = Created
          /\ Len(cur'[r].rss.newItems) = Cardinality(Created)
          /\ cur'[r].rss.totalNew = Cardinality(Created)
          /\ cur'[r].rss.totalProcessed
               = cur'[r].rss.totalNew + cur'[r].rss.totalDuplicates]_vars


(***************************************************************************)
(* Pipeline runs most of a day apart: a later run meets the records of an  *)
(* earlier one, scraped or not                                             *)
(***************************************************************************)
\* time passes between two runs
TickScrape ==
  /\ \A r \in Requests : pc[r] = "idle"
  /\ now < MaxScrapeTicks * RunGapHours * HourMs
  /\ now' = now + RunGapHours * HourMs
  /\ UNCHANGED <<storeVars, cacheVars, schedVars, sheet, pc, cur, out>>

NextScrape ==
  \/ Counted(MaxScrapeSteps) /\ \E r \in Requests : Trigger(r)
  \/ Counted(MaxScrapeSteps) /\ \E r \in Requests, feeds \in RunFeeds, page \in PageOutcomes :
                                  FetchStage(r, feeds, page)
  \/ Counted(MaxScrapeSteps) /\ \E r \in Requests, stageOk \in BOOLEAN, failing \in 0..1,
                                   search \in SearchOutcomes :
                                  LinkedInStage(r, stageOk, failing, search)
  \/ Counted(MaxScrapeSteps) /\ \E r \in Requests, stageOk \in BOOLEAN,
                                   failures \in FailureCounts, page \in PageOutcomes :
                                  PhStage(r, stageOk, failures, page)
  \/ Counted(MaxScrapeSteps) /\ \E r \in Requests, writeOk \in BOOLEAN :
                                  RecordStage(r, writeOk)
  \/ Counted(MaxScrapeSteps) /\ TickScrape

SpecScrape == InitRun /\ [][NextScrape]_vars

\* C24: during a pipeline run the detail scrape fetches pages only for
\* records created in that run: a sighting of a record that existed before
\* the run causes no page fetch, neither in the fetch stage nor in the
\* detail-scrape stage.
C24_PagesOnlyForCreated ==
  [][\A r \in Requests :
       /\ (pc[r] = "fetch" /\ pc'[r] = "linkedin")
          => Members(cur'[r].rss.fetched) \subseteq Created
       /\ (pc[r] = "ph" /\ pc'[r] = "record")
          => Members(cur'[r].phEnrichment.fetched) \subseteq cur[r].created]_vars

\* C25: no stage of a pipeline run fetches the page of a record that was
\* scraped successfully less than the detail-scrape expiry ago.
C25_NoFetchWithinExpiry ==
  [][\A r \in Requests :
       /\ (pc[r] = "fetch" /\ pc'[r] = "linkedin")
          => \A id \in Members(cur'[r].rss.fetched) \cap DOMAIN products :
               \/ products[id].phEnrichedAt = NoTime
               \/ now - products[id].phEnrichedAt >= phCacheExpiry
       /\ (pc[r] = "ph" /\ pc'[r] = "record")
          => \A id \in Members(cur'[r].phEnrichment.fetched) :
               \/ products[id].phEnrichedAt = NoTime
               \/ now - products[id].phEnrichedAt >= phCacheExpiry]_vars


(***************************************************************************)
(* getItem and the age of the entries in the two tiers                     *)
(***************************************************************************)
\* the in-memory tier holds key in an entry that is not expired
MemFresh(key) ==
  MemHas(inMemoryCache, key) /\ ~isExpired(MemGet(inMemoryCache, key).timestamp, now)

\* the persistent tier holds key in an entry that is not expired
DbFresh(key) == key \in DOMAIN dbCache /\ ~isExpired(dbCache[key].timestamp, now)

\* C26: getItem never returns the payload of an entry older than the cache's
\* expiry, whichever tier holds it: what it returns is the payload of an
\* unexpired entry; an expired entry found in the in-memory tier is removed
\* from it; an expired entry found in the persistent tier is deleted from
\* it; an unexpired entry found in the persistent tier is returned and
\* copied into the in-memory tier with the timestamp it was written with.
C26_GetItemRespectsExpiry ==
  [][\A key \in CacheKeys :
       (out'.op = "getItem" /\ GetItem(key))
       => /\ out'.ret # NullData
             => \/ MemFresh(key) /\ out'.ret = MemGet(inMemoryCache, key).data
                \/ DbFresh(key) /\ out'.ret = dbCache[key].data
          /\ (MemHas(inMemoryCache, key) /\ ~MemFresh(key) /\ ~DbFresh(key))
             => ~MemHas(inMemoryCache', key)
          /\ (~MemFresh(key) /\ key \in DOMAIN dbCache /\ ~DbFresh(key))
             => key \notin DOMAIN dbCache'
          /\ (~MemFresh(key) /\ DbFresh(key))
             => /\ out'.ret = dbCache[key].data
                /\ dbCache' = dbCache
                /\ MemHas(inMemoryCache', key)
                /\ MemGet(inMemoryCache', key).data = dbCache[key].data
                /\ MemGet(inMemoryCache', key).timestamp = dbCache[key].timestamp]_vars

\* a getItem answered from the persistent tier some time after the entry was
\* written: the copy in the in-memory tier carries the time of writing and
\* stands behind an entry written later
C26_Witness ==
  /\ out.op = "getItem" /\ out.ret # NullData
  /\ MemHas(inMemoryCache, out.key)
  /\ MemGet(inMemoryCache, out.key).timestamp < now
  /\ MemGet(inMemoryCache, out.key).timestamp = dbCache[out.key].timestamp
  /\ \E i \in 1..Len(inMemoryCache) :
       /\ i < MemIndex(inMemoryCache, out.key)
       /\ inMemoryCache[i].timestamp > dbCache[out.key].timestamp


(***************************************************************************)
(* The size of the in-memory tier: getItem, setItem and deleteItem on four *)
(* keys, and time.  cur notes, for each key the tier holds, the number of  *)
(* the call that inserted it.                                              *)
(***************************************************************************)
TierKeys == CacheKeys \cup {PhKey(2)}

Keys(mem) == {mem[i].key : i \in 1..Len(mem)}

\* the key in the tier that was inserted first
Oldest == CHOOSE key \in DOMAIN cur : \A other \in DOMAIN cur : cur[key] <= cur[other]

\* the insertion notes after a call on key: the entries the call did not
\* insert keep their note
Noted(mem, key, keeps) ==
  [k \in Keys(mem) |-> IF k \in DOMAIN cur /\ (k # key \/ keeps) THEN cur[k] ELSE steps]

\* what a call on key did to the tier
TierOut(op, key, ret) ==
  [op |-> op, key |-> key, ret |-> ret,
   evicted |-> Keys(inMemoryCache) \ (Keys(inMemoryCache') \cup {key})]

\* cacheService.setItem(key, data, expiryMs)
TierSetItem(key, data) ==
  /\ LET stored == cacheSetItem(inMemoryCache, dbCache, key, data, cacheExpiry, now) IN
     /\ inMemoryCache' = stored.mem
     /\ dbCache' = stored.db
     /\ cur' = Noted(stored.mem, key,
                     ~(Len(inMemoryCache) >= maxInMemorySize /\ Oldest = key))
  /\ out' = TierOut("setItem", key, NullData)
  /\ UNCHANGED <<now, storeVars, schedVars, sheet, pc>>

\* cacheService.getItem(key)
TierGetItem(key) ==
  /\ LET got == cacheGetItem(inMemoryCache, dbCache, key, now) IN
     /\ inMemoryCache' = got.mem
     /\ dbCache' = got.db
     /\ cur' = Noted(got.mem, key, MemFresh(key))
     /\ out' = TierOut("getItem", key, got.ret)
  /\ UNCHANGED <<now, storeVars, schedVars, sheet, pc>>

\* cacheService.deleteItem(key)
TierDeleteItem(key) ==
  /\ LET deleted == cacheDeleteItem(inMemoryCache, dbCache, key) IN
     /\ inMemoryCache' = deleted.mem
     /\ dbCache' = deleted.db
     /\ cur' = Noted(deleted.mem, key, FALSE)
  /\ out' = TierOut("deleteItem", key, NullData)
  /\ UNCHANGED <<now, storeVars, schedVars, sheet, pc>>

NextTier ==
  \/ Counted(MaxTierSteps) /\ \E key \in TierKeys, data \in Payloads : TierSetItem(key, data)
  \/ Counted(MaxTierSteps) /\ \E key \in TierKeys : TierGetItem(key)
  \/ Counted(MaxTierSteps) /\ \E key \in TierKeys : TierDeleteItem(key)
  \/ Counted(MaxTierSteps) /\ TickCache

SpecTier == InitLookup /\ [][NextTier]_vars

\* C27: after every sequence of getItem, setItem and deleteItem calls the
\* in-memory tier holds at most maxInMemorySize entries, and whenever a key
\* that is not in the tier is inserted while the tier is full, exactly one
\* entry is removed: the one inserted earliest among those present.
C27_BoundedOldestFirst ==
  [][/\ Len(inMemoryCache') <= maxInMemorySize
     /\ \A key \in TierKeys :
          (/\ key \notin Keys(inMemoryCache)
           /\ key \in Keys(inMemoryCache')
           /\ Len(inMemoryCache) >= maxInMemorySize)
          => Keys(inMemoryCache) \ Keys(inMemoryCache') = {Oldest}]_vars

\* a call has just inserted its key into the full tier and an entry was
\* removed for it
C27_Witness ==
  /\ out.op \in {"setItem", "getItem"}
  /\ out.evicted # {}
  /\ out.key \in Keys(inMemoryCache)
  /\ Len(inMemoryCache) = maxInMemorySize


(***************************************************************************)
(* fetchWithRetry, attempt by attempt                                      *)
(***************************************************************************)
BackoffMs == 3000

\* a wait of the same length after every failed attempt
backoffFlat(i) == BackoffMs

\* the wait after the failed attempt of loop index i (attempt number i + 1)
backoff(i) == BackoffMs * (i + 1)

\* fetchWithRetry(url, retries) enters its loop
FetchWithRetry(retries) ==
  /\ pc = "idle"
  /\ pc' = "attempt"
  /\ cur' = [op |-> "fetchWithRetry", retries |-> retries, i |-> 0, waits |-> <<>>]
  /\ UNCHANGED <<now, storeVars, cacheVars, schedVars, sheet, out>>

\* what the call hands back after the attempt of loop index i
RetryOut(ret) ==
  [op |-> "fetchWithRetry", ret |-> ret, retries |-> cur.retries,
   attempts |-> cur.i + 1, waits |-> cur.waits, at |-> now]

\* one attempt: fetch answers with a response that is ok, or it fails or
\* answers with a response that is not ok
Attempt(ok) ==
  /\ pc = "attempt"
  /\ IF ok
     THEN /\ out' = RetryOut("response")
          /\ pc' = "idle"
          /\ cur' = NoCur
     ELSE IF cur.i = cur.retries - 1
     THEN /\ out' = RetryOut("error")
          /\ pc' = "idle"
          /\ cur' = NoCur
     ELSE /\ pc' = "wait"
          /\ UNCHANGED <<cur, out>>
  /\ UNCHANGED <<now, storeVars, cacheVars, schedVars, sheet, steps>>

\* the timer set after a failed attempt fires, and the loop goes on
Backoff ==
  /\ pc = "wait"
  /\ now' = now + backoff(cur.i)
  /\ cur' = [cur EXCEPT !.waits = Append(@, backoff(cur.i)), !.i = @ + 1]
  /\ pc' = "attempt"
  /\ UNCHANGED <<storeVars, cacheVars, schedVars, sheet, out, steps>>

NextRetry ==
  \/ Counted(MaxRetryCalls) /\ \E retries \in 1..MaxRetries : FetchWithRetry(retries)
  \/ \E ok \in BOOLEAN : Attempt(ok)
  \/ Backoff

\* every attempt comes to an end and every timer fires
SpecRetry ==
  /\ InitCache /\ [][NextRetry]_vars
  /\ WF_vars(\E ok \in BOOLEAN : Attempt(ok))
  /\ WF_vars(Backoff)

\* C28: fetchWithRetry(url, n) comes to an end for every n >= 1.  It makes
\* at most n attempts; the first response that is ok is returned at once;
\* after the i-th failed attempt it waits 3000 * i ms before the next one;
\* after the n-th failed attempt it raises the failure without waiting.
C28_RetryTerminates ==
  /\ [][/\ (pc = "attempt" /\ pc' = "idle")
           => /\ out'.attempts <= out'.retries
              /\ out'.waits = [k \in 1..(out'.attempts - 1) |-> 3000 * k]
              /\ out'.ret = "error" => out'.attempts = out'.retries
              /\ now' = now
              /\ LET failures == IF out'.ret = "error" THEN out'.attempts
                                 ELSE out'.attempts - 1
                 IN  /\ fetchWithRetry(failures, out'.retries).attempts = out'.attempts
                     /\ fetchWithRetry(failures, out'.retries).ok = (out'.ret = "response")
        /\ Attempt(TRUE) => (pc' = "idle" /\ out'.ret = "response")
        /\ (Attempt(FALSE) /\ cur.i + 1 = cur.retries)
           => (pc' = "idle" /\ out'.ret = "error")
        /\ (Attempt(FALSE) /\ cur.i + 1 < cur.retries) => pc' = "wait"
        /\ (pc = "wait" /\ pc' # "wait")
           => (pc' = "attempt" /\ now' - now = 3000 * (cur.i + 1)
               /\ cur'.i = cur.i + 1)
        /\ pc' = "attempt" => cur'.i < cur'.retries]_vars
  /\ (pc # "idle") ~> (pc = "idle")

\* the call enrichProduct makes, with every attempt failing: five attempts,
\* four waits, and the failure raised at the time of the last attempt
C28_Witness ==
  /\ pc = "idle" /\ out.op = "fetchWithRetry" /\ out.ret = "error"
  /\ out.retries = PhRetries /\ out.attempts = PhRetries
  /\ out.waits = <<3000, 6000, 9000, 12000>>
  /\ out.at = now


(***************************************************************************)
(* findBestLinkedInMatch                                                   *)
(***************************************************************************)
\* String.prototype.toLowerCase
toLowerCase(t) == [i \in 1..Len(t) |-> Lower(t[i])]

\* String.prototype.includes
includes(t, part) ==
  \E i \in 0..(Len(t) - Len(part)) : SubSeq(t, i + 1, i + Len(part)) = part

RECURSIVE UntilSpace(_)
UntilSpace(t) ==
  IF t = <<>> \/ Head(t) = " " THEN <<>> ELSE <<Head(t)>> \o UntilSpace(Tail(t))

RECURSIVE split(_)
\* String.prototype.split(/\s+/)
split(t) ==
  LET word == UntilSpace(t)
      rest == SubSeq(t, Len(word) + 1, Len(t))
  IN  IF rest = <<>> THEN <<word>> ELSE <<word>> \o split(TrimLeft(rest))

RECURSIVE SingleSpaces(_)
\* replace(/\s+/g, ' ')
SingleSpaces(t) ==
  IF t = <<>> THEN <<>>
  ELSE IF Head(t) = " "
       THEN <<" ">> \o SingleSpaces(TrimLeft(t))
       ELSE <<Head(t)>> \o SingleSpaces(Tail(t))

\* LinkedInEnrichmentService.cleanMakerName, the name put into the query
cleanMakerName(makerName) ==
  Substring0(Trim(SingleSpaces(DropChars(makerName, Punctuation))), 50)

ProfilePath == "linkedin.com/in/"

\* the links of the search results, in the pieces that matter to
\* link.includes('linkedin.com/in/')
JaneDoeProfile == <<"https://", "www.", ProfilePath, "jane-doe">>
JaneDoeSecond == <<"https://", "www.", ProfilePath, "jane-doe-2">>
DoeJaneProfile == <<"https://", ProfilePath, "doe-jane">>
JaneOnlyProfile == <<"https://", ProfilePath, "jane">>
DoeCompany == <<"https://", "www.", "linkedin.com/company/", "doe">>
BobOnlyProfile == <<"https://", ProfilePath, "bob">>

\* the null findBestLinkedInMatch returns: no link
NoLink == <<>>

isProfileLink(link) == \E i \in 1..Len(link) : link[i] = ProfilePath

JaneDoe == <<"J", "a", "n", "e", " ", "D", "o", "e">>
AlDoe == <<"A", "l", " ", "D", "o", "e">>
JaneExclaimed == <<"J", "a", "n", "e", "!">>
DoeJane == <<"D", "o", "e", " ", "J", "a", "n", "e">>
LowerDoe == <<"d", "o", "e">>

MatchNames == {JaneDoe, AlDoe, JaneExclaimed, Bob}

SearchResults ==
  { [link |-> JaneDoeProfile, title |-> JaneDoe, snippet |-> <<>>],
    [link |-> JaneDoeSecond, title |-> JaneDoe, snippet |-> <<>>],
    [link |-> DoeJaneProfile, title |-> DoeJane, snippet |-> toLowerCase(JaneDoe)],
    [link |-> JaneOnlyProfile, title |-> Jane, snippet |-> LowerDoe],
    [link |-> DoeCompany, title |-> JaneDoe, snippet |-> JaneDoe],
    [link |-> BobOnlyProfile, title |-> <<>>, snippet |-> Bob] }

ResultLists == UNION { [1..n -> SearchResults] : n \in 0..MaxResults }

RECURSIVE wordsScore(_, _, _)
\* nameWords.forEach: 2 for a word longer than two characters found in the
\* title, 1 for one found in the snippet
wordsScore(nameWords, title, snippet) ==
  IF nameWords = <<>> THEN 0
  ELSE LET word == Head(nameWords)
       IN  (IF Len(word) > 2 /\ includes(title, word) THEN 2 ELSE 0)
           + (IF Len(word) > 2 /\ includes(snippet, word) THEN 1 ELSE 0)
           + wordsScore(Tail(nameWords), title, snippet)

\* the score of one result
score(result, makerName) ==
  LET title == toLowerCase(result.title)
      snippet == toLowerCase(result.snippet)
      makerNameLower == toLowerCase(makerName)
  IN  (IF includes(title, makerNameLower) THEN 10 ELSE 0)
      + wordsScore(split(makerNameLower), title, snippet)

RECURSIVE placeLatest(_, _)
\* a sort that puts a result before the results of the same score
placeLatest(sorted, r) ==
  IF sorted = <<>> THEN <<r>>
  ELSE IF Head(sorted).score > r.score
       THEN <<Head(sorted)>> \o placeLatest(Tail(sorted), r)
       ELSE <<r>> \o sorted

RECURSIVE place(_, _)
\* Array.prototype.sort((a, b) => b.score - a.score) is stable: a result
\* goes behind the results of the same or a higher score that came before it
place(sorted, r) ==
  IF sorted = <<>> THEN <<r>>
  ELSE IF Head(sorted).score >= r.score
       THEN <<Head(sorted)>> \o place(Tail(sorted), r)
       ELSE <<r>> \o sorted

RECURSIVE sortByScore(_)
sortByScore(scored) ==
  IF scored = <<>> THEN <<>>
  ELSE place(sortByScore(SubSeq(scored, 1, Len(scored) - 1)), scored[Len(scored)])

\* LinkedInEnrichmentService.findBestLinkedInMatch, with the scored list
\* it chose from
findBestLinkedInMatch(results, makerName) ==
  LET linkedinResults == SelectSeq(results, LAMBDA r : isProfileLink(r.link))
      scoredResults ==
        sortByScore([i \in 1..Len(linkedinResults) |->
                       [link |-> linkedinResults[i].link,
                        score |-> score(linkedinResults[i], makerName)]])
  IN  IF results = <<>> \/ linkedinResults = <<>>
      THEN [ret |-> NoLink, scored |-> <<>>]
      ELSE [ret |-> IF scoredResults[1].score > 0 THEN scoredResults[1].link ELSE NoLink,
            scored |-> scoredResults]

InitMatch ==
  /\ now = 0
  /\ products = <<>>
  /\ productList = <<>>
  /\ nextId = 1
  /\ inMemoryCache = <<>>
  /\ dbCache = <<>>
  /\ inMemorySchedule = <<>>
  /\ dbSchedule = <<>>
  /\ sheet = NoSheet
  /\ pc = "idle"
  /\ cur \in [results : ResultLists, makerName : MatchNames]
  /\ out = NoOut
  /\ steps = 0

\* searchWithSerpAPI hands the organic results and the maker name it was
\* called with to findBestLinkedInMatch
FindBestLinkedInMatch ==
  /\ pc = "idle"
  /\ out' = [op |-> "findBestLinkedInMatch", results |-> cur.results,
             makerName |-> cur.makerName]
            @@ findBestLinkedInMatch(cur.results, cur.makerName)
  /\ pc' = "matched"
  /\ UNCHANGED <<now, storeVars, cacheVars, schedVars, sheet, cur, steps>>

NextMatch == FindBestLinkedInMatch

SpecMatch == InitMatch /\ [][NextMatch]_vars

\* the score the description gives a result for a name: 10 for the name in
\* the title, 2 for each word of the name longer than two characters in the
\* title, 1 for each such word in the snippet; letter case is not regarded
Described(result, name) ==
  LET title == toLowerCase(result.title)
      snippet == toLowerCase(result.snippet)
      words == split(toLowerCase(name))
      long == {i \in 1..Len(words) : Len(words[i]) > 2}
  IN  (IF includes(title, toLowerCase(name)) THEN 10 ELSE 0)
      + 2 * Cardinality({i \in long : includes(title, words[i])})
      + Cardinality({i \in long : includes(snippet, words[i])})

\* the earliest profile result with the highest score, when that is above 0
Chosen(results, name) ==
  LET profiles == {i \in 1..Len(results) : isProfileLink(results[i].link)}
      best == {i \in profiles :
                 \A j \in profiles :
                   Described(results[j], name) <= Described(results[i], name)}
      first == CHOOSE i \in best : \A j \in best : i <= j
  IN  IF profiles # {} /\ Described(results[first], name) > 0
      THEN results[first].link ELSE NoLink

Matched == pc = "matched" /\ out.op = "findBestLinkedInMatch"

\* C29 as stated: the name looked for in the titles and split into words is
\* the cleaned maker name
C29_ScoresCleanedName ==
  Matched => out.ret = Chosen(out.results, cleanMakerName(out.makerName))

\* C29: findBestLinkedInMatch scores every result whose link holds
\* linkedin.com/in/ with 10 when the maker name as it was given, in lower
\* case, is part of the lower-cased title, plus 2 for every word of that name
\* longer than two characters that is part of the title, plus 1 for every
\* such word that is part of the snippet; it returns the link of the
\* earliest result with the highest score when that score is above 0 and
\* null otherwise.  A result with the name in its title is chosen over
\* results that hold single words of it.
C29_ScoresGivenName ==
  Matched =>
    /\ out.ret = Chosen(out.results, out.makerName)
    /\ \A k \in 1..Len(out.scored) :
         \E i \in 1..Len(out.results) :
           /\ out.results[i].link = out.scored[k].link
           /\ out.scored[k].score = Described(out.results[i], out.makerName)
    /\ \A i, j \in 1..Len(out.results) :
         (/\ isProfileLink(out.results[i].link)
          /\ isProfileLink(out.results[j].link)
          /\ includes(toLowerCase(out.results[i].title), toLowerCase(out.makerName))
          /\ ~includes(toLowerCase(out.results[j].title), toLowerCase(out.makerName)))
         => out.ret # out.results[j].link

\* two results with the name in the title behind one that holds single
\* words of it: the first of the two is returned
C29_Witness ==
  /\ Matched
  /\ out.makerName = JaneDoe
  /\ Len(out.results) = 3
  /\ out.results[1].link = DoeJaneProfile
  /\ out.results[2].link = JaneDoeSecond
  /\ out.results[3].link = JaneDoeProfile
  /\ out.ret = JaneDoeSecond
  /\ out.scored[1].score = 14


(***************************************************************************)
(* The writes of the workers, step by step.  DatabaseService keeps the     *)
(* store in one file; every write reads the file, changes the parsed data  *)
(* and writes the file back, and other requests are served between the     *)
(* awaits of a write.                                                      *)
(***************************************************************************)
\* POST /api/makers/:id/reject served while a worker is between two awaits
RejectMeanwhile(id) ==
  /\ LET rejected == updateProductFields(products, id, [status |-> "rejected"], now) IN
     /\ products' = rejected.products
     /\ out' = IF rejected.ret # <<>>
               THEN [op |-> "reject", id |-> id, code |-> 200, success |-> TRUE]
               ELSE [op |-> "reject", id |-> id, code |-> 404, success |-> FALSE]
  /\ UNCHANGED <<now, productList, nextId, cacheVars, schedVars, sheet, pc, cur>>

\* POST /api/makers/:id/approve served while a worker is between two awaits
ApproveMeanwhile(id, faults) ==
  /\ IF id \notin DOMAIN products
     THEN /\ out' = [op |-> "approve", id |-> id, code |-> 404, success |-> FALSE]
          /\ UNCHANGED <<products, sheet>>
     ELSE LET product == products[id]
              approved == updateProductFields(products, id, [status |-> "approved"], now)
              sync == addApprovedMaker(sheet, product, faults)
              marked == updateProductFields(approved.products, id,
                                            [sheetsSynced |-> TRUE], now)
          IN /\ sheet' = sync.sheet
             /\ products' = IF sync.ret = "true" THEN marked.products
                            ELSE approved.products
             /\ out' = [op |-> "approve", id |-> id, code |-> 200, success |-> TRUE,
                        synced |-> sync.ret = "true"]
  /\ UNCHANGED <<now, productList, nextId, cacheVars, schedVars, pc, cur>>

\* enrichProducts: the profile is looked up and updateProductLinkedIn has
\* read the record with getItem and set linkedin and updatedAt on its copy
LinkedInRead(id, search) ==
  /\ pc = "idle"
  /\ id \in DOMAIN products
  /\ NeedsEnrichment(products[id])
  /\ LET found == findLinkedInProfile(inMemoryCache, dbCache, products[id].makerName,
                                      search, now)
     IN /\ inMemoryCache' = found.mem
        /\ dbCache' = found.db
        /\ cur' = [op |-> "updateProductLinkedIn", id |-> id,
                   product |-> [products[id] EXCEPT !.linkedin = found.ret,
                                                    !.updatedAt = now]]
  /\ pc' = "setItem"
  /\ UNCHANGED <<now, storeVars, schedVars, sheet, out>>

\* setItem has read the file
SetItemRead ==
  /\ pc = "setItem"
  /\ cur' = cur @@ [data |-> products]
  /\ pc' = "setItem-write"
  /\ UNCHANGED <<now, storeVars, cacheVars, schedVars, sheet, out>>

\* setItem puts the copy into the data it read and writes the file
SetItemWrite ==
  /\ pc = "setItem-write"
  /\ products' = (cur.id :> cur.product) @@ cur.data
  /\ out' = [op |-> "updateProductLinkedIn", id |-> cur.id]
  /\ pc' = "idle"
  /\ cur' = NoCur
  /\ UNCHANGED <<now, productList, nextId, cacheVars, schedVars, sheet>>

DetailFields == {"linkedin", "phGithub", "thumbnail", "phEnrichedAt"}

\* enrichProduct on a stored record: the page is fetched, the details are
\* cached, and updateProductPhDetails has read the file
PhDetailsRead(id, page) ==
  /\ pc = "idle"
  /\ id \in DOMAIN products
  /\ LET enriched == enrichProduct(inMemoryCache, dbCache, products, products[id],
                                   page, now)
     IN /\ inMemoryCache' = enriched.mem
        /\ dbCache' = enriched.db
        /\ IF enriched.products = products
           THEN /\ out' = [op |-> "enrichProduct", id |-> id, written |-> FALSE]
                /\ UNCHANGED <<pc, cur>>
           ELSE /\ cur' = [op |-> "updateProductPhDetails", id |-> id,
                           phDetails |-> [f \in DetailFields |-> enriched.ret[f]],
                           data |-> products]
                /\ pc' = "ph-write"
                /\ UNCHANGED out
  /\ UNCHANGED <<now, storeVars, schedVars, sheet>>

\* updateProductPhDetails spreads the details over the record in the data
\* it read and writes the file
PhDetailsWrite ==
  /\ pc = "ph-write"
  /\ products' = updateProductPhDetails(cur.data, cur.id, cur.phDetails,
                                        cur.phDetails.phEnrichedAt)
  /\ out' = [op |-> "updateProductPhDetails", id |-> cur.id]
  /\ pc' = "idle"
  /\ cur' = NoCur
  /\ UNCHANGED <<now, productList, nextId, cacheVars, schedVars, sheet>>

NextFrame ==
  \/ Counted(MaxFrameSteps) /\ \E id \in DOMAIN products, search \in SearchOutcomes :
                                 LinkedInRead(id, search)
  \/ Counted(MaxFrameSteps) /\ SetItemRead
  \/ Counted(MaxFrameSteps) /\ SetItemWrite
  \/ Counted(MaxFrameSteps) /\ \E id \in DOMAIN products, page \in PageOutcomes :
                                 PhDetailsRead(id, page)
  \/ Counted(MaxFrameSteps) /\ PhDetailsWrite
  \/ Counted(MaxFrameSteps) /\ \E id \in DOMAIN products : RejectMeanwhile(id)
  \/ Counted(MaxFrameSteps) /\ \E id \in DOMAIN products : ApproveMeanwhile(id, {})
  \/ Counted(MaxFrameSteps) /\ TickCache

SpecFrame == InitSink /\ [][NextFrame]_vars

\* the fields of a record that are no enrichment fields
FrameFields ==
  {"id", "name", "phLink", "makerName", "category", "status", "syncedToSheets",
   "sheetsSynced"}

\* C30: a write made to a record by the profile-lookup worker or by the
\* detail-scrape worker leaves the record's id, name, link, maker name,
\* category, status and sync fields as they were before the write
C30_EnrichmentWritesKeepFrame ==
  [][(pc \in {"setItem-write", "ph-write"} /\ pc' = "idle")
     => \A f \in FrameFields : products'[cur.id][f] = products[cur.id][f]]_vars

\* the status the worker saw when it read the record it is about to write
ReadStatus ==
  IF pc = "ph-write" THEN cur.data[cur.id].status ELSE cur.product.status

\* C34: when an approve or reject action on a record has completed while a
\* worker was between reading that record and writing it, the status of the
\* record after the worker's write is the one the action set
C34_StatusChangeSurvives ==
  [][(/\ pc \in {"setItem-write", "ph-write"} /\ pc' = "idle"
      /\ products[cur.id].status # ReadStatus)
     => products'[cur.id].status = products[cur.id].status]_vars


(***************************************************************************)
(* One feed with malformed items                                           *)
(***************************************************************************)
\* the items a feed can hold: two posts, and an item without title, without
\* link, with a link that is no URL, and with a title too short
BatchItems ==
  { Entry(Acme, Url("/posts/acme", 0, TRUE), Jane, DescTool, 0),
    Entry(Acme, Url("/posts/beta", 1, FALSE), Jane, DescTool, 0),
    Entry(<<>>, Url("/posts/acme", 0, FALSE), Jane, DescTool, 0),
    Entry(Acme, EmptyLink, Jane, DescTool, 0),
    Entry(Acme, BadLink, Jane, DescTool, 0),
    Entry(TooShort, Url("/posts/beta", 0, FALSE), Jane, DescTool, 0) }

Batches == UNION { [1..n -> BatchItems] : n \in 0..MaxBatch }

InitBatch ==
  /\ now = 0
  /\ products = <<>>
  /\ productList = <<>>
  /\ nextId = 1
  /\ inMemoryCache = <<>>
  /\ dbCache = <<>>
  /\ inMemorySchedule = <<>>
  /\ dbSchedule = <<>>
  /\ sheet = NoSheet
  /\ pc = "idle"
  /\ cur \in [items : Batches]
  /\ out = NoOut
  /\ steps = 0

\* fetchCategory on a feed that was fetched and holds the items of cur
FetchBatch(category, page) ==
  /\ pc = "idle"
  /\ LET results == fetchCategoryLoop(StoreOf(products, productList, nextId,
                                              inMemoryCache, dbCache),
                                      cur.items, 1, category, 0, page, now)
     IN /\ products' = results.st.products
        /\ productList' = results.st.productList
        /\ nextId' = results.st.nextId
        /\ inMemoryCache' = results.st.mem
        /\ dbCache' = results.st.db
        /\ out' = [op |-> "fetchCategory", items |-> cur.items,
                   processed |-> results.processed]
  /\ pc' = "fetched"
  /\ UNCHANGED <<now, schedVars, sheet, cur, steps>>

NextBatch == \E category \in Categories, page \in PageOutcomes : FetchBatch(category, page)

SpecBatch == InitBatch /\ [][NextBatch]_vars

\* an item the description says is dropped for its title or for want of a link
Dropped(item) ==
  \/ item.title = <<>>
  \/ item.link.kind = "empty"
  \/ Len(cleanTitle(item.title)) < 3

Unparsable(item) == item.link.kind = "bad"

StoredLinks == {products[id].phLink : id \in DOMAIN products}

BatchFetched == pc = "fetched" /\ out.op = "fetchCategory"

cacheGetKeysByPattern(mem, data, ns) ==
  {key \in Keys(mem) : key.ns = ns} \cup getKeysByPattern(ns, data)

RECURSIVE deleteItems(_, _, _)
\* deleteItem for every key of a set
deleteItems(mem, db, keys) ==
  IF keys = {} THEN [mem |-> mem, db |-> db]
  ELSE LET key == CHOOSE k \in keys : TRUE
           deleted == cacheDeleteItem(mem, db, key)
       IN deleteItems(deleted.mem, deleted.db, keys \ {key})

\* CacheService.cleanupExpiredCache: of the keys getKeysByPattern gives for
\* 'linkedin_cache:*', those the store holds no entry for, or an expired one,
\* are deleted from both tiers
cleanupExpiredCache(mem, db, list, schedule, t) ==
  LET allKeys == cacheGetKeysByPattern(mem, LocalData(list, db, schedule, TRUE), LinkedInNs)
      stale == {key \in allKeys :
                  key \notin DOMAIN db \/ isExpired(db[key].timestamp, t)}
      swept == deleteItems(mem, db, stale)
  IN [mem |-> swept.mem, db |-> swept.db, checked |-> Cardinality(allKeys),
      removed |-> Cardinality(stale)]

\* a clearLinkedInCache that leaves the store alone
clearLinkedInCacheMemoryOnly(mem, db, list, schedule) ==
  LET linkedinKeys == {key \in Keys(mem) : key.ns = LinkedInNs}
      mem1 == SelectSeq(mem, LAMBDA e : e.key \notin linkedinKeys)
  IN [mem |-> mem1, db |-> db, memoryCleared |-> Cardinality(linkedinKeys),
      databaseCleared |-> 0]

\* CacheService.clearLinkedInCache: the keys of the in-memory tier that start
\* with 'linkedin_cache:' are deleted from it, then deleteItem is called for
\* every key getKeysByPattern gives for 'linkedin_cache:*'
clearLinkedInCache(mem, db, list, schedule) ==
  LET linkedinKeys == {key \in Keys(mem) : key.ns = LinkedInNs}
      mem1 == SelectSeq(mem, LAMBDA e : e.key \notin linkedinKeys)
      allKeys == cacheGetKeysByPattern(mem1, LocalData(list, db, schedule, TRUE), LinkedInNs)
      cleared == deleteItems(mem1, db, allKeys)
  IN [mem |-> cleared.mem, db |-> cleared.db, memoryCleared |-> Cardinality(linkedinKeys),
      databaseCleared |-> Cardinality(allKeys)]

CleanupExpiredCache ==
  /\ LET results == cleanupExpiredCache(inMemoryCache, dbCache, productList, dbSchedule, now)
     IN /\ inMemoryCache' = results.mem
        /\ dbCache' = results.db
        /\ out' = [op |-> "cleanupExpiredCache", checked |-> results.checked,
                   removed |-> results.removed]
  /\ UNCHANGED <<now, storeVars, schedVars, sheet, pc, cur>>

ClearLinkedInCache ==
  /\ LET results == clearLinkedInCache(inMemoryCache, dbCache, productList, dbSchedule)
     IN /\ inMemoryCache' = results.mem
        /\ dbCache' = results.db
        /\ out' = [op |-> "clearLinkedInCache", memoryCleared |-> results.memoryCleared,
                   databaseCleared |-> results.databaseCleared]
  /\ UNCHANGED <<now, storeVars, schedVars, sheet, pc, cur>>

NextSweep ==
  \/ Counted(MaxSweepSteps) /\ \E key \in CacheKeys, data \in Payloads :
                                 SetItem(key, data, cacheExpiry)
  \/ Counted(MaxSweepSteps) /\ Restart
  \/ Counted(MaxSweepSteps) /\ TickCache
  \/ Counted(MaxSweepSteps) /\ \E jobName \in Jobs : RecordJobRun(jobName, TRUE, TRUE)
  \/ Counted(MaxSweepSteps) /\ CleanupExpiredCache
  \/ Counted(MaxSweepSteps) /\ ClearLinkedInCache

SpecSweep == InitSink /\ [][NextSweep]_vars

\* C32: after cleanupExpiredCache no entry older than the expiry is left in
\* the in-memory tier or in the store, whether it is a profile-lookup entry
\* or a detail-scrape entry, and every entry that is not expired is still
\* there
C32_SweepRemovesExpired ==
  [][(out'.op = "cleanupExpiredCache" /\ CleanupExpiredCache)
     => /\ \A key \in DOMAIN dbCache' : ~isExpired(dbCache'[key].timestamp, now)
        /\ \A i \in 1..Len(inMemoryCache') : ~isExpired(inMemoryCache'[i].timestamp, now)
        /\ \A key \in DOMAIN dbCache :
             ~isExpired(dbCache[key].timestamp, now)
             => (key \in DOMAIN dbCache' /\ dbCache'[key] = dbCache[key])
        /\ \A i \in 1..Len(inMemoryCache) :
             ~isExpired(inMemoryCache[i].timestamp, now)
             => \E j \in 1..Len(inMemoryCache') : inMemoryCache'[j] = inMemoryCache[i]]_vars

\* C38: clearLinkedInCache leaves no profile-lookup entry in the in-memory
\* tier or in the store, and the detail-scrape entries of both tiers, the
\* records, the record list and the marks are after the call what they were
\* before it
C38_ClearTouchesOnlyProfiles ==
  [][(out'.op = "clearLinkedInCache" /\ ClearLinkedInCache)
     => /\ \A key \in DOMAIN dbCache' : key.ns # LinkedInNs
        /\ \A i \in 1..Len(inMemoryCache') : inMemoryCache'[i].key.ns # LinkedInNs
        /\ inMemoryCache' = SelectSeq(inMemoryCache, LAMBDA e : e.key.ns # LinkedInNs)
        /\ \A key \in DOMAIN dbCache :
             key.ns # LinkedInNs => (key \in DOMAIN dbCache' /\ dbCache'[key] = dbCache[key])
        /\ DOMAIN dbCache' \subseteq DOMAIN dbCache
        /\ UNCHANGED <<storeVars, schedVars, sheet, now>>]_vars

\* a clear that removed a profile-lookup entry from the store after a
\* restart had emptied the in-memory tier and a detail-scrape entry had been
\* cached again, with records and a mark in the store
C38_Witness ==
  /\ out.op = "clearLinkedInCache"
  /\ out.memoryCleared = 0 /\ out.databaseCleared = 1
  /\ PhKey(1) \in DOMAIN dbCache
  /\ Keys(inMemoryCache) = {PhKey(1)}
  /\ DOMAIN products # {}
  /\ DOMAIN dbSchedule # {}


(***************************************************************************)
(* The pace of a batch: the loops of enrichProducts and enrichNewProducts  *)
(* with their external calls and their delays, call by call                *)
(***************************************************************************)
LinkedInDelayMs == 500
PhDelayMs == 2000
\* the longest an external call takes in the model
CallMs == 100

\* no pause after a record
delayAfterNone(op) == 0

\* the pause at the end of the loop body
delayAfter(op) == IF op = "enrichProducts" THEN LinkedInDelayMs ELSE PhDelayMs

\* what a record of a batch meets.  enrichProducts: the result is cached, or
\* the search is called.  enrichNewProducts: the record is skipped as
\* enriched of late, the details are cached, or the page is fetched with this
\* many failing attempts
PaceKinds(op) ==
  IF op = "enrichProducts"
  THEN {[kind |-> "cached", failures |-> 0], [kind |-> "call", failures |-> 0]}
  ELSE {[kind |-> "skip", failures |-> 0], [kind |-> "cached", failures |-> 0],
        [kind |-> "call", failures |-> 0], [kind |-> "call", failures |-> 1],
        [kind |-> "call", failures |-> PhRetries]}

\* the number of external calls a record needs
callsOf(op, record) ==
  IF record.kind # "call" THEN 0
  ELSE IF op = "enrichProducts" THEN 1
  ELSE fetchWithRetry(record.failures, PhRetries).attempts

\* enrichProducts(products) or enrichNewProducts(products) is called
StartBatch(op, todo) ==
  /\ pc = "idle"
  /\ pc' = "next"
  /\ cur' = [op |-> op, todo |-> todo, i |-> 1, attempt |-> 0, inflight |-> {},
             lastRecord |-> 0, lastEnd |-> 0]
  /\ UNCHANGED <<now, storeVars, cacheVars, schedVars, sheet, out>>

\* the head of the loop: the batch ends, the record is skipped, its result
\* is taken from the cache, or its first external call is made
NextRecord ==
  /\ pc = "next"
  /\ IF cur.i > Len(cur.todo)
     THEN /\ pc' = "done"
          /\ out' = [op |-> cur.op, records |-> Len(cur.todo)]
          /\ cur' = NoCur
     ELSE LET record == cur.todo[cur.i] IN
          /\ UNCHANGED out
          /\ IF record.kind = "skip"
             THEN /\ pc' = "next"
                  /\ cur' = [cur EXCEPT !.i = @ + 1]
             ELSE IF record.kind = "cached"
             THEN /\ pc' = "delay"
                  /\ UNCHANGED cur
             ELSE /\ pc' = "calling"
                  /\ cur' = [cur EXCEPT !.inflight = @ \cup {cur.i}, !.attempt = 1]
  /\ UNCHANGED <<now, storeVars, cacheVars, schedVars, sheet>>

\* the external call answers or fails; a page fetch that failed and has
\* attempts left goes to its backoff
CallReturns(took) ==
  /\ pc = "calling"
  /\ now' = now + took
  /\ cur' = [cur EXCEPT !.inflight = @ \ {cur.i}, !.lastRecord = cur.i,
                        !.lastEnd = now + took]
  /\ pc' = IF cur.attempt < callsOf(cur.op, cur.todo[cur.i]) THEN "backoff" ELSE "delay"
  /\ UNCHANGED <<storeVars, cacheVars, schedVars, sheet, out>>

\* the backoff of fetchWithRetry ends and the next attempt is made
RetryCall ==
  /\ pc = "backoff"
  /\ now' = now + backoff(cur.attempt - 1)
  /\ cur' = [cur EXCEPT !.inflight = @ \cup {cur.i}, !.attempt = @ + 1]
  /\ pc' = "calling"
  /\ UNCHANGED <<storeVars, cacheVars, schedVars, sheet, out>>

\* the pause at the end of the loop body
Delay ==
  /\ pc = "delay"
  /\ now' = now + delayAfter(cur.op)
  /\ cur' = [cur EXCEPT !.i = @ + 1, !.attempt = 0]
  /\ pc' = "next"
  /\ UNCHANGED <<storeVars, cacheVars, schedVars, sheet, out>>

PaceBatches(op) == UNION { [1..n -> PaceKinds(op)] : n \in 1..MaxPaceBatch }

NextPace ==
  \/ \E op \in {"enrichProducts", "enrichNewProducts"} :
       \E todo \in PaceBatches(op) : StartBatch(op, todo) /\ UNCHANGED steps
  \/ NextRecord /\ UNCHANGED steps
  \/ \E took \in {0, CallMs} : CallReturns(took) /\ UNCHANGED steps
  \/ RetryCall /\ UNCHANGED steps
  \/ Delay /\ UNCHANGED steps

SpecPace == InitCache /\ [][NextPace]_vars

InBatch == pc \in {"next", "calling", "backoff", "delay"}

\* C33: within a batch of enrichProducts or enrichNewProducts at most one
\* external call is in flight at any time, and between the last external
\* call made for a record and the first made for the next record that needs
\* one the delay of the loop has passed (500 ms for profile lookups, 2000 ms
\* for page fetches)
C33_OneCallAtATimePaced ==
  [][/\ InBatch' => Cardinality(cur'.inflight) <= 1
     /\ (InBatch /\ InBatch' /\ cur'.inflight # cur.inflight /\ cur'.inflight # {})
        => \A r \in cur'.inflight :
             (cur.lastRecord # 0 /\ cur.lastRecord # r)
             => /\ cur.inflight = {}
                /\ now' - cur.lastEnd >= (IF cur.op = "enrichProducts" THEN 500 ELSE 2000)]_vars

\* a page fetch is in flight for the third record of a batch of
\* enrichNewProducts, after a fetch for the first that failed once and was
\* repeated, and a second record that was skipped
C33_Witness ==
  /\ pc = "calling"
  /\ cur.op = "enrichNewProducts"
  /\ cur.i = 3 /\ cur.inflight = {3}
  /\ cur.todo[1].failures = 1 /\ cur.todo[2].kind = "skip"
  /\ cur.lastRecord = 1
  /\ now - cur.lastEnd = 2000


(***************************************************************************)
(* Two writers on the store file.  setItem and deleteItem read the whole   *)
(* file, change the parsed data and write the whole file back.             *)
(***************************************************************************)
Writers == {1, 2}

\* readLocalData: the parsed file
FileData == [products |-> products, productList |-> productList, cache |-> dbCache,
             schedule |-> dbSchedule]

\* DatabaseService.setItem on the data it read
dbSetItem(data, key, value) ==
  IF key.ns = ProductNs THEN [data EXCEPT !.products = (key.id :> value) @@ @]
  ELSE IF key.ns \in {LinkedInNs, PhNs} THEN [data EXCEPT !.cache = (key :> value) @@ @]
  ELSE [data EXCEPT !.schedule = (key.id :> value) @@ @]

\* DatabaseService.deleteItem on the data it read
dbDeleteItem(data, key) ==
  IF key.ns = ProductNs
  THEN [data EXCEPT !.products = [id \in DOMAIN @ \ {key.id} |-> @[id]],
                    !.productList = SelectSeq(@, LAMBDA id : id # key.id)]
  ELSE IF key.ns \in {LinkedInNs, PhNs} THEN [data EXCEPT !.cache = DbDelete(@, key)]
  ELSE [data EXCEPT !.schedule = [j \in DOMAIN @ \ {key.id} |-> @[j]]]

\* what a write makes of the data it read
dbApply(data, write) ==
  IF write.op = "setItem" THEN dbSetItem(data, write.key, write.value)
  ELSE dbDeleteItem(data, write.key)

\* the store after a pipeline run: two records, the details of the first in
\* the cache, and the mark of a job
InitFile ==
  /\ now = 0
  /\ products = Fetched(Len(SeedItems)).products
  /\ productList = Fetched(Len(SeedItems)).productList
  /\ nextId = Len(SeedItems) + 1
  /\ inMemoryCache = <<>>
  /\ dbCache = (PhKey(1) :> [data |-> UrlData(JaneProfile), timestamp |-> 0])
  /\ inMemorySchedule = <<>>
  /\ dbSchedule = ("other-job" :> [timestamp |-> 0, results |-> NoResults])
  /\ sheet = NoSheet
  /\ pc = "idle"
  /\ cur = <<>>
  /\ out = NoOut
  /\ steps = 0

\* the writes that requests and a pipeline run make: an approval stored, a
\* lookup result cached, a mark recorded, a cache entry and a mark deleted
FileWrites ==
  << [op |-> "setItem", key |-> ProductKey(1),
     value |-> [Fetched(Len(SeedItems)).products[1] EXCEPT !.status = "approved"]],
    [op |-> "setItem", key |-> LinkedInKey(Jane),
     value |-> [data |-> UrlData(JaneProfile), timestamp |-> 0]],
    [op |-> "setItem", key |-> ScheduleKey(RssFetch),
     value |-> [timestamp |-> 0, results |-> NoResults]],
    [op |-> "deleteItem", key |-> PhKey(1), value |-> NullData],
    [op |-> "deleteItem", key |-> ScheduleKey("other-job"), value |-> NullData] >>

\* a setItem or deleteItem has read the file
FileRead(w, write) ==
  /\ pc = "idle"
  /\ w \notin DOMAIN cur
  /\ cur' = (w :> [phase |-> "read", write |-> write, data |-> FileData,
                   overlapped |-> \E v \in DOMAIN cur : cur[v].phase = "read"])
            @@ [v \in DOMAIN cur |->
                  IF cur[v].phase = "read" THEN [cur[v] EXCEPT !.overlapped = TRUE]
                  ELSE cur[v]]
  /\ UNCHANGED <<now, storeVars, cacheVars, schedVars, sheet, pc, out, steps>>

\* it changes the data it read and writes the file
FileWrite(w) ==
  /\ w \in DOMAIN cur
  /\ cur[w].phase = "read"
  /\ LET data == dbApply(cur[w].data, cur[w].write) IN
     /\ products' = data.products
     /\ productList' = data.productList
     /\ dbCache' = data.cache
     /\ dbSchedule' = data.schedule
  /\ cur' = [cur EXCEPT ![w].phase = "done"]
  /\ out' = [op |-> cur[w].write.op, key |-> cur[w].write.key]
  /\ UNCHANGED <<now, nextId, inMemoryCache, inMemorySchedule, sheet, pc, steps>>

NextFile ==
  \/ \E w \in Writers, i \in 1..Len(FileWrites) : FileRead(w, FileWrites[i])
  \/ \E w \in Writers : FileWrite(w)

SpecFile == InitFile /\ [][NextFile]_vars

\* two keys of the store that are not the same key
DifferentKeys(a, b) == a.ns # b.ns \/ a.id # b.id

\* the store holds what the write wrote
TookEffect(write) ==
  IF write.op = "setItem"
  THEN dbSetItem(FileData, write.key, write.value) = FileData
  ELSE dbDeleteItem(FileData, write.key) = FileData

\* C35: when two writes to different keys that overlapped in time have both
\* completed, the store holds what both wrote
C35_BothWritesTakeEffect ==
  (/\ \A w \in Writers : w \in DOMAIN cur /\ cur[w].phase = "done"
   /\ DifferentKeys(cur[1].write.key, cur[2].write.key)
   /\ cur[1].overlapped /\ cur[2].overlapped)
  => (TookEffect(cur[1].write) /\ TookEffect(cur[2].write))

(***************************************************************************)
(* The sync mark: what approve and resync set, what the resync reads       *)
(***************************************************************************)
\* the ids of the records a resync would hand to addApprovedMaker
NeedingSyncIds(prods, list) ==
  {getApprovedProductsNeedingSync(prods, list)[i].id :
     i \in 1..Len(getApprovedProductsNeedingSync(prods, list))}

\* C36: once addApprovedMaker has returned true for an approved record, in
\* the approve handler or in a resync, the record is no longer among the
\* records getApprovedProductsNeedingSync returns, so the next resync makes
\* no sink call for it.
C36_SyncedRecordLeavesResync ==
  [][/\ \A id \in DOMAIN products :
          (out'.op = "approve" /\ out'.id = id /\ Approve(id, {}) /\ out'.synced)
          => id \notin NeedingSyncIds(products', productList')
     /\ Resync(NoFaults)
        => \A i \in 1..Len(out'.results) :
              out'.results[i].success
              => out'.results[i].productId \notin NeedingSyncIds(products', productList')]_vars

(***************************************************************************)
(* Marks without a valid timestamp in the store                            *)
(***************************************************************************)
\* a mark whose timestamp is absent, is not a date, or is null
MalformedTimes == {NoTime, BadTime, NullTime}
Malformed(mark) == mark # NoMark /\ mark.timestamp \in MalformedTimes

\* the store holds a mark for rss-fetch that recordJobRun did not write, and
\* may hold a mark of the other job
InitMarks ==
  /\ now = 0
  /\ products = <<>>
  /\ productList = <<>>
  /\ nextId = 1
  /\ inMemoryCache = <<>>
  /\ dbCache = <<>>
  /\ inMemorySchedule = <<>>
  /\ \E timestamp \in MalformedTimes, other \in BOOLEAN :
       dbSchedule = (RssFetch :> [timestamp |-> timestamp, results |-> NoResults])
                    @@ (IF other
                        THEN ("other-job" :> [timestamp |-> 0, results |-> NoResults])
                        ELSE <<>>)
  /\ sheet = NoSheet
  /\ pc = "idle"
  /\ cur = NoCur
  /\ out = NoOut
  /\ steps = 0

NextMarks ==
  \/ Counted(MaxMarkSteps) /\ \E jobName \in Jobs, intervalHours \in Overrides,
                                 readOk \in BOOLEAN :
                                ShouldJobRun(jobName, intervalHours, readOk)
  \/ Counted(MaxMarkSteps) /\ \E jobName \in Jobs, readOk, writeOk \in BOOLEAN :
                                RecordJobRun(jobName, readOk, writeOk)
  \/ Counted(MaxMarkSteps) /\ \E daysToKeep \in DaysToKeep, readOk, writeOk \in BOOLEAN :
                                CleanupOldSchedules(daysToKeep, readOk, writeOk)
  \/ Counted(MaxMarkSteps) /\ RestartSched
  \/ Counted(MaxMarkSteps) /\ TickSched

SpecMarks == InitMarks /\ [][NextMarks]_vars

\* C37: a mark without a valid timestamp never blocks its job: whenever the
\* mark shouldJobRun reads for a job, from the memory map or from the store,
\* is malformed, the call answers shouldRun = true, whatever the interval.
C37_MalformedMarkNeverBlocks ==
  [][\A jobName \in Jobs, intervalHours \in Overrides, readOk \in BOOLEAN :
       (/\ out'.op = "shouldJobRun"
        /\ ShouldJobRun(jobName, intervalHours, readOk)
        /\ Malformed(getLastRun(inMemorySchedule, dbSchedule, jobName, readOk).ret))
       => out'.shouldRun]_vars

\* a check of rss-fetch, made before the default interval has passed since the
\* start, read a mark whose timestamp is not a date and allowed the run, while
\* the mark is still in the store and now in the memory map too
C37_Witness ==
  /\ out.op = "shouldJobRun" /\ out.jobName = RssFetch /\ out.shouldRun
  /\ out.intervalHours = Override(MaxOverride)
  /\ now < defaultIntervalMinutes * MinuteMs
  /\ RssFetch \in DOMAIN inMemorySchedule
  /\ inMemorySchedule[RssFetch].timestamp = BadTime
  /\ RssFetch \in DOMAIN dbSchedule
  /\ dbSchedule[RssFetch].timestamp = BadTime

=============================================================================
